---------------------------- MODULE Spec2Model ----------------------------
(***************************************************************************)
(* Model of the Meta-ads ingestion scripts of tiedyecat/sda.               *)
(*                                                                         *)
(*   demo.py                 the ingestion pipeline (retrying fetcher,     *)
(*                           paginated collectors, row assembly, batched   *)
(*                           upsert with row-level fallback, main loop)    *)
(*   fetch_meta_ads.py       the variant with creatives and an id key      *)
(*   meta_ads_monitoring.py  the early variant (no pagination of insights) *)
(*                                                                         *)
(* Specifications:                                                         *)
(*   SpecFetch   one call of fetch_url, in each of its three variants      *)
(*   SpecPage    one paginated collector call over an upstream page chain  *)
(*   Spec        a run of demo.py main over the account list               *)
(*   SpecFMA     a run of fetch_meta_ads.py main over the account list     *)
(***************************************************************************)
EXTENDS Integers, Sequences, FiniteSets, TLC

VARIABLES
    fVariant,   \* SpecFetch: which script's fetch_url is running ("post":
                \*   chat-notifier.py's post_with_retry, in SpecPost)
    fState,     \* SpecFetch: the local state of the running fetch_url call
    fLast,      \* SpecFetch: the last response fetch_url received
    fCalls,     \* SpecFetch: number of fetch_url calls started so far
    fAll429,    \* SpecFetch: every response of the running call was a 429
    pgVariant,  \* which script's collector is running
    pgColl,     \* the running collector: "insights" | "ads" | "campaigns"
    pgAcct,     \* the account the collector reads
    pgCyclic,   \* whether the upstream's last page links back to the first
    pgNxt,      \* the collector's cursor `nxt` / `url` (a page number, 0: None)
    pgAcc,      \* the collector's accumulator list
    pgFetched,  \* fetch_url calls the running collector has made
    pgGets,     \* GET attempts of each of those calls, in order
    pgPc,       \* "idle" | "running" | "returned" | "raised"
    cur,        \* main: the position in the account list of its for loop
    stage,      \* main: "next" | "fetch" | "assemble" | "write" | "pace" |
                \*       "finished" | "aborted"
    status,     \* per account: PENDING, FETCHING, ASSEMBLING, WRITING, DONE, SKIPPED
    insights,   \* process_account: the list fetch_insights returned
    ads,        \* process_account: the map fetch_ads returned
    camps,      \* process_account: the map fetch_campaigns returned
    rows,       \* process_account: the assembled rows
    batchI,     \* process_account: `i` of the batch loop
    store,      \* the table meta_ads_monitoring
    deadLetter, \* the files log_bad_rows has written, in order
    abortCause, \* why the run aborted: "none" | "structural" | "exception"
    rejects,    \* keys of the rows the store rejects individually
    indexed,    \* whether the table has the unique index on the conflict key
    fetchRaised,\* accounts for which a collector raised
    lastBatch,  \* the latest batch iteration: account, index, batch error
    rowI,       \* fetch_meta_ads.py: insight rows its assembly loop has taken
    creative_cache, \* fetch_meta_ads.py process_and_save: creative_cache
    creativeReqs,   \* creatives requests of this account's run, per ad_id
    creativesDown,  \* ad_ids whose creatives request raises
    clock,      \* fetch_meta_ads.py: the time datetime.now() returns
    run,        \* which execution of main this is, counted from 1
    firstStore, \* the table as it was when the latest re-execution started
    batchErrs,  \* batch upserts that have raised, over all executions
    prog,       \* which of the ingestion scripts is being executed
    issued,     \* the batches this account's batch loop has handed to upsert
    paces,      \* pacing sleeps main has taken in this execution
    clLines,    \* chat-notifier.py chunk_lines: its argument `lines`
    clLimit,    \* chunk_lines: its argument `limit`
    clChunks,   \* chunk_lines: the list it returned
    clPc,       \* chunk_lines: "idle" | "returned"
    faTable,    \* fetch_all_rows: the rows of meta_ads_monitoring, in range order
    faStart,    \* fetch_all_rows: `start`
    faRows,     \* fetch_all_rows: `rows`
    faRanges,   \* fetch_all_rows: the ranges <<start, end>> it has requested
    faPc        \* fetch_all_rows: "idle" | "running" | "returned"

fetchVars == <<fVariant, fState, fLast, fCalls, fAll429>>

pageVars == <<pgVariant, pgColl, pgAcct, pgCyclic, pgNxt, pgAcc, pgFetched,
              pgGets, pgPc>>

runVars == <<cur, stage, status, insights, ads, camps, rows, batchI, store,
             deadLetter, abortCause, rejects, indexed, fetchRaised, lastBatch>>

fmaVars == <<rowI, creative_cache, creativeReqs, creativesDown, clock>>

auxVars == <<run, firstStore, batchErrs, prog, issued, paces>>

chatVars == <<clLines, clLimit, clChunks, clPc, faTable, faStart, faRows,
              faRanges, faPc>>

vars == <<fetchVars, pageVars, runVars, fmaVars, auxVars, chatVars>>

(***************************************************************************)
(* Time is counted in ticks; the jitter random.uniform(0, 1) takes the     *)
(* values 0, 1/TicksPerSecond, ... below 1 second: 0 + (1 - 0) * random()  *)
(* with random() in [0, 1).                                                *)
(***************************************************************************)
TicksPerSecond == 2

\* fetch_url calls a behaviour of SpecFetch makes.
MaxFetchCalls == 2

\* Upstream accounts a collector call of SpecPage may read.
NumWorlds == 4

\* Pages a collector call of SpecPage may fetch (a cyclic upstream never ends).
MaxPageFetches == 5

\* Accounts in the account list of a run.
NumAccounts == 3

\* Executions of main a behaviour makes, one after the other.
MaxRuns == 2

RECURSIVE Pow2(_)
Pow2(n) == IF n = 0 THEN 1 ELSE 2 * Pow2(n - 1)

(***************************************************************************)
(* What one HTTP GET can come back with.  kind "status" is a response,     *)
(* "client_error" an aiohttp.ClientError raised by the GET, "other_error"  *)
(* any other exception raised by it (asyncio.TimeoutError, a JSON decoding *)
(* ValueError).  retry_after is the Retry-After header in seconds, 0 when  *)
(* absent; too_many is whether the body contains "too many calls".         *)
(***************************************************************************)
Resp(kind, code, retry_after, too_many) ==
    [kind |-> kind, status |-> code, retry_after |-> retry_after,
     too_many |-> too_many]

R200 == Resp("status", 200, 0, FALSE)

Responses ==
    { R200,
      Resp("status", 429, 0, FALSE),
      Resp("status", 429, 30, FALSE),
      Resp("status", 500, 0, FALSE),
      Resp("status", 503, 0, FALSE),
      Resp("status", 400, 0, FALSE),
      Resp("status", 400, 0, TRUE),
      Resp("status", 403, 0, FALSE),
      Resp("status", 404, 0, FALSE),
      Resp("client_error", 0, 0, FALSE),
      Resp("other_error", 0, 0, FALSE) }

Jitters == 0 .. TicksPerSecond - 1

\* demo.py: async def fetch_url(sess, url, params=None, tries=5)
tries == 5

\* fetch_meta_ads.py, meta_ads_monitoring.py: fetch_url(..., max_retries=5)
max_retries == 5

(***************************************************************************)
(* The local state of a fetch_url call.                                    *)
(*   pc       "running" | "returned" | "raised"                            *)
(*   attempt  demo.py: the loop index; the other variants: retries         *)
(*   delay    ticks the call sleeps between the last GET and the next one  *)
(*   gets     GET attempts issued by this call                             *)
(*   slept    ticks slept by this call before its latest GET               *)
(*   retried  whether the latest GET was answered by a retry               *)
(***************************************************************************)
FetchStart ==
    [pc |-> "running", attempt |-> 0, delay |-> 0, gets |-> 0, slept |-> 0,
     retried |-> FALSE]

\* The delay growing by one second per attempt: (attempt + 1) + uniform(0, 1).
BackoffLinear(attempt, jit) == (attempt + 1) * TicksPerSecond + jit

\* delay = (2 ** attempt) + random.uniform(0, 1)
Backoff(attempt, jit) == Pow2(attempt) * TicksPerSecond + jit

\* fetch_url with `while True` in place of `for attempt in range(tries)`.
fetch_url_step_unbounded(st, r, jit) ==
    LET got == [st EXCEPT !.gets = st.gets + 1, !.slept = st.delay] IN
    IF r.kind = "status" /\ r.status = 200
    THEN [got EXCEPT !.pc = "returned", !.retried = FALSE]
    ELSE IF r.kind = "other_error"
    THEN [got EXCEPT !.pc = "raised", !.retried = FALSE]
    ELSE [got EXCEPT !.delay = Backoff(st.attempt, jit),
                     !.attempt = st.attempt + 1,
                     !.retried = TRUE]

\* demo.py fetch_url: one iteration of `for attempt in range(tries)`, and the
\* RuntimeError after the last one.
fetch_url_step(st, r, jit) ==
    LET got == [st EXCEPT !.gets = st.gets + 1, !.slept = st.delay] IN
    IF r.kind = "status" /\ r.status = 200
    THEN [got EXCEPT !.pc = "returned", !.retried = FALSE]
    ELSE IF r.kind = "other_error"
    THEN [got EXCEPT !.pc = "raised", !.retried = FALSE]
    ELSE [got EXCEPT !.delay = Backoff(st.attempt, jit),
                     !.attempt = st.attempt + 1,
                     !.retried = (st.attempt + 1 < tries),
                     !.pc = IF st.attempt + 1 < tries THEN "running"
                            ELSE "raised"]

\* fetch_meta_ads.py fetch_url: one iteration of `while retries < max_retries`.
\* The raise of line 56 is inside the try and is caught by line 57.
fetch_url_fma_step(st, r) ==
    LET got     == [st EXCEPT !.gets = st.gets + 1,
                              !.slept = st.delay + TicksPerSecond]
        retries == st.attempt + 1
        wait    == IF r.kind = "status" /\ r.status = 400 /\ r.too_many
                   THEN 30 * retries * TicksPerSecond
                   ELSE 5 * retries * TicksPerSecond
    IN
    IF r.kind = "status" /\ r.status = 200
    THEN [got EXCEPT !.pc = "returned", !.retried = FALSE]
    ELSE [got EXCEPT !.delay = wait,
                     !.attempt = retries,
                     !.retried = (retries < max_retries),
                     !.pc = IF retries < max_retries THEN "running"
                            ELSE "raised"]

\* meta_ads_monitoring.py fetch_url (meta_pipeline_fork.py has the same text):
\* no try, so only 400 "too many calls" is retried.
fetch_url_mon_step(st, r) ==
    LET got     == [st EXCEPT !.gets = st.gets + 1,
                              !.slept = st.delay + TicksPerSecond]
        retries == st.attempt + 1
    IN
    IF r.kind = "status" /\ r.status = 200
    THEN [got EXCEPT !.pc = "returned", !.retried = FALSE]
    ELSE IF r.kind = "status" /\ r.status = 400 /\ r.too_many
    THEN [got EXCEPT !.delay = 30 * retries * TicksPerSecond,
                     !.attempt = retries,
                     !.retried = (retries < max_retries),
                     !.pc = IF retries < max_retries THEN "running"
                            ELSE "raised"]
    ELSE [got EXCEPT !.pc = "raised", !.retried = FALSE]

Variants == {"demo", "fma", "mon"}

NoResp == Resp("none", 0, 0, FALSE)

(***************************************************************************)
(* A whole call of fetch_url against a scripted endpoint: script[i] is the *)
(* outcome of the i-th GET and the jitter drawn after it.                  *)
(***************************************************************************)
RECURSIVE fetch_url_run(_, _, _)
fetch_url_run(variant, st, script) ==
    IF st.pc # "running" \/ script = <<>> THEN st
    ELSE LET e  == Head(script)
             nx == CASE variant = "demo" -> fetch_url_step(st, e.r, e.jit)
                     [] variant = "fma"  -> fetch_url_fma_step(st, e.r)
                     [] OTHER            -> fetch_url_mon_step(st, e.r)
         IN fetch_url_run(variant, nx, Tail(script))

fetch_url(variant, script) == fetch_url_run(variant, FetchStart, script)

Always(r) == [i \in 1 .. tries |-> [r |-> r, jit |-> 0]]

\* The endpoints a collector may meet: healthy; throttled twice and then
\* healthy; throttled for good; answering 403; raising a non-client error.
Scripts ==
    { Always(R200),
      <<[r |-> Resp("status", 400, 0, TRUE), jit |-> 1],
        [r |-> Resp("status", 400, 0, TRUE), jit |-> 0]>> \o Always(R200),
      Always(Resp("status", 400, 0, TRUE)),
      Always(Resp("status", 403, 0, FALSE)),
      Always(Resp("other_error", 0, 0, FALSE)) }

---------------------------------------------------------------------------
(***************************************************************************)
(* The upstream ads platform.  Account a owns NumAds(a) ads,               *)
(* NumCampaigns(a) campaigns and NumInsights(a) daily insight rows; the    *)
(* four shapes of account repeat with period 4.                            *)
(***************************************************************************)
Min(x, y) == IF x < y THEN x ELSE y

World(a) == ((a - 1) % 4) + 1

NumInsights(a) == CASE World(a) = 1 -> 112
                    [] World(a) = 2 -> 0
                    [] World(a) = 3 -> 5
                    [] OTHER        -> 100

NumAds(a) == CASE World(a) = 1 -> 4
               [] World(a) = 2 -> 0
               [] World(a) = 3 -> 2
               [] OTHER        -> 101

NumCampaigns(a) == CASE World(a) = 1 -> 2
                     [] World(a) = 2 -> 0
                     [] World(a) = 3 -> 1
                     [] OTHER        -> 101

\* Ads an account's insight rows refer to (accounts of the third shape refer
\* to an ad that the ads endpoint does not list).
AdsReferred(a) == CASE World(a) = 3 -> 3
                    [] OTHER        -> 4

\* Platform ids are unique across accounts.
AdId(a, k) == a * 1000 + k

CampaignId(a, k) == a * 1000 + k

None == <<>>

Some(v) == <<v>>

\* One element of the ads endpoint's "data".  The ads of an account alternate
\* between its campaigns 1 and 2 (accounts of the third shape list a single
\* campaign, so their second ad belongs to an unlisted campaign).
UpAd(a, k) ==
    [id |-> AdId(a, k), name |-> <<"ad", a, k>>,
     campaign_id |-> CampaignId(a, ((k - 1) % 2) + 1)]

\* One element of the campaigns endpoint's "data"; daily_budget is in minor
\* units and is absent for campaigns without a daily budget (every second one).
UpCampaign(a, k) ==
    IF k % 2 = 1
    THEN [id |-> CampaignId(a, k), name |-> <<"campaign", a, k>>,
          daily_budget |-> 5000000 * k]
    ELSE [id |-> CampaignId(a, k), name |-> <<"campaign", a, k>>]

\* One element of the insights endpoint's "data": one row per (ad, date).
\* The counters arrive as text; `bad` names the fields whose text is not a
\* number.  In accounts of the third shape the fourth row has a non-numeric
\* impressions field and the fifth lacks date_start.
UpInsight(a, k) ==
    LET ad   == ((k - 1) % AdsReferred(a)) + 1
        date == ((k - 1) \div AdsReferred(a)) + 1
        core == [ad_id |-> AdId(a, ad),
                 impressions |-> 200 * (k % 3), clicks |-> 10 * (k % 2),
                 spend |-> 50, frequency |-> 1,
                 bad |-> IF World(a) = 3 /\ k = 4 THEN {"impressions"} ELSE {},
                 actions |-> IF k % 2 = 0 THEN <<>>
                             ELSE <<[action_type |-> "lead", value |-> 2],
                                    [action_type |->
                                        "offsite_conversion.fb_pixel_purchase",
                                     value |-> 1]>>]
    IN IF World(a) = 3 /\ k = 5 THEN core
       ELSE core @@ [date_start |-> date]

Colls == {"insights", "ads", "campaigns"}

UpCount(a, coll) == CASE coll = "insights"  -> NumInsights(a)
                      [] coll = "ads"       -> NumAds(a)
                      [] OTHER              -> NumCampaigns(a)

UpItem(a, coll, k) == CASE coll = "insights"  -> UpInsight(a, k)
                        [] coll = "ads"       -> UpAd(a, k)
                        [] OTHER              -> UpCampaign(a, k)

\* The "limit" parameter each collector sends.
Limit(coll) == IF coll = "insights" THEN 50 ELSE 100

NumPages(a, coll) ==
    IF UpCount(a, coll) = 0 THEN 1
    ELSE (UpCount(a, coll) + Limit(coll) - 1) \div Limit(coll)

\* The JSON of page p: its "data" and its "paging.next" (0: no next cursor).
\* A cyclic upstream links its last page back to the first.
Page(a, coll, cyclic, p) ==
    LET first == (p - 1) * Limit(coll) + 1
        last  == Min(p * Limit(coll), UpCount(a, coll))
    IN [data |-> [i \in 1 .. (last - first + 1) |-> UpItem(a, coll, first + i - 1)],
        next |-> IF p < NumPages(a, coll) THEN p + 1
                 ELSE IF cyclic THEN 1 ELSE 0]

AllItems(a, coll) == [k \in 1 .. UpCount(a, coll) |-> UpItem(a, coll, k)]

(***************************************************************************)
(* The collectors.  demo.py follows the cursor in all three; the other     *)
(* scripts read a single page of campaigns (all of them) and of insights   *)
(* (meta_ads_monitoring.py).                                               *)
(***************************************************************************)
Paginates(variant, coll) ==
    CASE variant = "demo" -> TRUE
      [] variant = "fma"  -> coll \in {"insights", "ads"}
      [] OTHER            -> coll = "ads"

\* One iteration of the collector's `while nxt:` loop (the whole body of a
\* single-page collector): the page fetched through fetch_url is appended and
\* the cursor followed; an exception of fetch_url leaves the collector.
CollectorIter(variant, a, coll, cyclic, nxt, acc, out) ==
    IF out.pc = "raised"
    THEN [pc |-> "raised", nxt |-> 0, acc |-> <<>>]
    ELSE LET page == Page(a, coll, cyclic, nxt)
             to   == IF Paginates(variant, coll) THEN page.next ELSE 0
         IN [pc  |-> IF to = 0 THEN "returned" ELSE "running",
             nxt |-> to,
             acc |-> acc \o page.data]

\* demo.py fetch_ads: {a["id"]: a for a in ads}
ads_map(lst) ==
    [id \in {lst[i].id : i \in DOMAIN lst} |->
        LET i == CHOOSE j \in DOMAIN lst :
                    lst[j].id = id /\ \A l \in DOMAIN lst : lst[l].id = id => l <= j
        IN lst[i]]

Get(d, k, default) == IF k \in DOMAIN d THEN d[k] ELSE default

\* The platform's minor-unit scale: daily_budget / 1_000_000.
BUDGET_SCALE == 1000000

RECURSIVE Gcd(_, _)
Gcd(x, y) == IF y = 0 THEN x ELSE Gcd(y, x % y)

\* The exact value of n / d (d > 0, n >= 0) as a reduced fraction.
Ratio(n, d) == LET g == Gcd(n, d) IN <<n \div g, d \div g>>

\* fetch_campaigns with the platform's value copied as it is.
campaigns_map_unscaled(campaigns) ==
    [id \in {campaigns[i].id : i \in DOMAIN campaigns} |->
        LET i == CHOOSE j \in DOMAIN campaigns :
                    /\ campaigns[j].id = id
                    /\ \A l \in DOMAIN campaigns : campaigns[l].id = id => l <= j
        IN [campaign_name |-> campaigns[i].name,
            daily_budget  |-> Ratio(Get(campaigns[i], "daily_budget", 0), 1)]]

\* fetch_campaigns: {c["id"]: {campaign_name, daily_budget / 1_000_000}}
campaigns_map(campaigns) ==
    [id \in {campaigns[i].id : i \in DOMAIN campaigns} |->
        LET i == CHOOSE j \in DOMAIN campaigns :
                    /\ campaigns[j].id = id
                    /\ \A l \in DOMAIN campaigns : campaigns[l].id = id => l <= j
        IN [campaign_name |-> campaigns[i].name,
            daily_budget  |-> Ratio(Get(campaigns[i], "daily_budget", 0),
                                    BUDGET_SCALE)]]

---------------------------------------------------------------------------
(***************************************************************************)
(* Row assembly (demo.py process_account, lines 160-202).                  *)
(***************************************************************************)
\* load_accounts: (business_name, account_id) of the a-th account of the list.
Business(a) == <<"business", a>>

Act(a) == a

\* The action types for which `"purchase" in a["action_type"]` holds.
ContainsPurchase(t) ==
    t \in {"purchase", "omni_purchase", "offsite_conversion.fb_pixel_purchase"}

IsLead(t) == t = "lead"

\* sum(int(a["value"]) for a in acts if <the type passes>), for each filter.
RECURSIVE SumLeads(_)
SumLeads(acts) ==
    IF acts = <<>> THEN 0
    ELSE (IF IsLead(Head(acts).action_type) THEN Head(acts).value ELSE 0)
         + SumLeads(Tail(acts))

RECURSIVE SumPurchases(_)
SumPurchases(acts) ==
    IF acts = <<>> THEN 0
    ELSE (IF ContainsPurchase(Head(acts).action_type) THEN Head(acts).value ELSE 0)
         + SumPurchases(Tail(acts))

\* Whether the body of the row's try block runs to the end: ins["ad_id"] and
\* ins["date_start"] exist, and int() / float() accept every text they are given.
RowParses(ins) ==
    /\ "ad_id" \in DOMAIN ins
    /\ "date_start" \in DOMAIN ins
    /\ Get(ins, "bad", {}) \cap {"impressions", "clicks", "spend", "frequency"} = {}
    /\ \A i \in DOMAIN Get(ins, "actions", <<>>) :
          LET a == ins.actions[i] IN
          /\ "action_type" \in DOMAIN a
          /\ (IsLead(a.action_type) \/ ContainsPurchase(a.action_type))
                => ("value" \in DOMAIN a /\ ~Get(a, "bad", FALSE))

\* The row with guards that yield None where the code yields 0.
demo_row_null_guards(act, business, ins, adm, cm) ==
    LET impr == Get(ins, "impressions", 0)
        clk  == Get(ins, "clicks", 0)
        spd  == Get(ins, "spend", 0)
        conv == SumLeads(Get(ins, "actions", <<>>))
                + SumPurchases(Get(ins, "actions", <<>>))
    IN [ad_id |-> ins.ad_id, date |-> ins.date_start, account_id |-> act,
        business_name |-> business,
        impressions |-> impr, clicks |-> clk, spend |-> spd, conversions |-> conv,
        ctr |-> IF impr # 0 THEN Ratio(clk * 100, impr) ELSE None,
        cpc |-> IF clk # 0 THEN Ratio(spd, clk) ELSE None,
        cpm |-> IF impr # 0 THEN Ratio(spd * 1000, impr) ELSE None,
        cpa |-> IF conv # 0 THEN Ratio(spd, conv) ELSE None]

\* The dictionary appended to `rows` for one insight row that parses.
demo_row(act, business, ins, adm, cm) ==
    LET ad    == Get(adm, ins.ad_id, <<>>)
        cid   == IF "campaign_id" \in DOMAIN ad THEN Some(ad.campaign_id) ELSE None
        known == cid # None /\ cid[1] \in DOMAIN cm
        impr  == Get(ins, "impressions", 0)
        clk   == Get(ins, "clicks", 0)
        spd   == Get(ins, "spend", 0)
        acts  == Get(ins, "actions", <<>>)
        leads == SumLeads(acts)
        purch == SumPurchases(acts)
        conv  == leads + purch
    IN [account_id     |-> act,
        business_name  |-> business,
        ad_id          |-> ins.ad_id,
        ad_name        |-> IF "name" \in DOMAIN ad THEN Some(ad.name) ELSE None,
        campaign_id    |-> cid,
        campaign_name  |-> IF known THEN Some(cm[cid[1]].campaign_name) ELSE None,
        daily_budget   |-> IF known THEN cm[cid[1]].daily_budget ELSE None,
        impressions    |-> impr,
        clicks         |-> clk,
        ctr            |-> IF impr # 0 THEN Ratio(clk * 100, impr) ELSE Ratio(0, 1),
        spend          |-> spd,
        cpc            |-> IF clk # 0 THEN Ratio(spd, clk) ELSE Ratio(0, 1),
        cpm            |-> IF impr # 0 THEN Ratio(spd * 1000, impr) ELSE Ratio(0, 1),
        frequency      |-> Get(ins, "frequency", 0),
        leads          |-> leads,
        purchases      |-> purch,
        conversions    |-> conv,
        cpa            |-> IF conv # 0 THEN Ratio(spd, conv) ELSE Ratio(0, 1),
        date           |-> ins.date_start,
        flagged        |-> FALSE,
        flagged_reason |-> None]

\* The loop with `ads[ins["ad_id"]]` for the lookup: an unknown ad raises
\* KeyError and the row is skipped.
demo_rows_strict(act, business, data, adm, cm) ==
    LET KnownAd(ins) == RowParses(ins) /\ ins.ad_id \in DOMAIN adm
        parsed == SelectSeq(data, KnownAd) IN
    [i \in 1 .. Len(parsed) |-> demo_row(act, business, parsed[i], adm, cm)]

\* The loop `for ins in insights.get("data", [])`: a row that raises is skipped.
demo_rows(act, business, data, adm, cm) ==
    LET parsed == SelectSeq(data, RowParses) IN
    [i \in 1 .. Len(parsed) |-> demo_row(act, business, parsed[i], adm, cm)]

(***************************************************************************)
(* The store: the table meta_ads_monitoring, a map from the conflict key   *)
(* to the stored row.                                                      *)
(***************************************************************************)
\* demo.py: UNIQUE_KEYS = ["account_id", "ad_id", "date"]
UNIQUE_KEYS(row) == <<row.account_id, row.ad_id, row.date>>

BATCH_SIZE == 100

\* ON CONFLICT DO UPDATE sets the columns the written row carries; a column
\* it does not carry keeps the value the stored row had.
OldColumns(table, k) == IF k \in DOMAIN table THEN table[k] ELSE <<>>

\* upsert(batch, on_conflict=UNIQUE_KEYS) that succeeds: insert or overwrite.
Upsert(table, batch) ==
    LET keys == {UNIQUE_KEYS(batch[i]) : i \in DOMAIN batch} IN
    [k \in DOMAIN table \cup keys |->
        IF k \in keys
        THEN batch[CHOOSE i \in DOMAIN batch :
                      /\ UNIQUE_KEYS(batch[i]) = k
                      /\ \A j \in DOMAIN batch : UNIQUE_KEYS(batch[j]) = k => j <= i]
             @@ OldColumns(table, k)
        ELSE table[k]]

\* What an upsert can raise: the class of the exception and the error code it
\* carries.  42P10: the ON CONFLICT columns have no unique index.
StoreErr(cls, code) == [cls |-> cls, code |-> code]

StoreOk == StoreErr("none", "none")

ErrClasses == {"SupabaseException", "Exception"}

\* explain_supabase_error(err), then `"42P10" in msg`.
IsStructural(err) == err.cls = "SupabaseException" /\ err.code = "42P10"

\* Keys of the rows the store rejects one by one (a constraint they violate):
\* none, or three rows of account 1's first batch and one row of account 3.
KeyOfInsight(a, k) ==
    <<Act(a), UpInsight(a, k).ad_id, UpInsight(a, k).date_start>>

RejectSets ==
    { {},
      { KeyOfInsight(1, 3), KeyOfInsight(1, 50), KeyOfInsight(1, 100),
        KeyOfInsight(3, 2) } }

\* The slice taken one row too long: rows[i:i+BATCH_SIZE+1].
SliceOfOverlapping(rs, i) == SubSeq(rs, i + 1, Min(i + BATCH_SIZE + 1, Len(rs)))

\* batch = rows[i:i+BATCH_SIZE]
SliceOf(rs, i) == SubSeq(rs, i + 1, Min(i + BATCH_SIZE, Len(rs)))

---------------------------------------------------------------------------
(* SpecFetch: calls of fetch_url against an arbitrary endpoint.            *)

FetchIdle ==
    /\ fVariant = "demo"
    /\ fState = [FetchStart EXCEPT !.pc = "returned"]
    /\ fLast = NoResp
    /\ fCalls = 0
    /\ fAll429 = TRUE

PageIdle ==
    /\ pgVariant = "demo"
    /\ pgColl = "insights"
    /\ pgAcct = 1
    /\ pgCyclic = FALSE
    /\ pgNxt = 0
    /\ pgAcc = <<>>
    /\ pgFetched = 0
    /\ pgGets = <<>>
    /\ pgPc = "idle"

Accounts == 1 .. NumAccounts

NoBatch == [acct |-> 0, i |-> 0, err |-> StoreOk]

\* The state main starts from, for a given store and deployment.
RunStart ==
    /\ cur = 1
    /\ stage = "next"
    /\ status = [a \in Accounts |-> "PENDING"]
    /\ insights = <<>>
    /\ ads = <<>>
    /\ camps = <<>>
    /\ rows = <<>>
    /\ batchI = 0
    /\ store = <<>>
    /\ deadLetter = <<>>
    /\ abortCause = "none"
    /\ fetchRaised = {}
    /\ lastBatch = NoBatch
    /\ run = 1
    /\ firstStore = <<>>
    /\ batchErrs = 0
    /\ issued = <<>>
    /\ paces = 0

FmaStartVars ==
    /\ rowI = 0
    /\ creative_cache = <<>>
    /\ creativeReqs = <<>>
    /\ clock = 0

\* chat-notifier.py is not running.
ChatIdle ==
    /\ clLines = <<>> /\ clLimit = 0 /\ clChunks = <<>> /\ clPc = "idle"
    /\ faTable = <<>> /\ faStart = 0 /\ faRows = <<>> /\ faRanges = <<>>
    /\ faPc = "idle"

RunIdle ==
    /\ RunStart /\ rejects = {} /\ indexed = TRUE /\ prog = "demo"
    /\ FmaStartVars /\ creativesDown = {}
    /\ ChatIdle

InitFetch == FetchIdle /\ PageIdle /\ RunIdle

\* A new top-level call: `delay = 0` / `retries = 0`.
FetchCall ==
    /\ fState.pc # "running"
    /\ fCalls < MaxFetchCalls
    /\ \E v \in Variants : fVariant' = v
    /\ fState' = FetchStart
    /\ fLast' = NoResp
    /\ fCalls' = fCalls + 1
    /\ fAll429' = TRUE
    /\ UNCHANGED <<pageVars, runVars, fmaVars, chatVars, auxVars>>

FetchDemo ==
    /\ fState.pc = "running" /\ fVariant = "demo"
    /\ \E r \in Responses, jit \in Jitters :
          /\ fState' = fetch_url_step(fState, r, jit)
          /\ fLast' = r
          /\ fAll429' = (fAll429 /\ r.kind = "status" /\ r.status = 429)
    /\ UNCHANGED <<fVariant, fCalls, pageVars, runVars, fmaVars, chatVars, auxVars>>

FetchFMA ==
    /\ fState.pc = "running" /\ fVariant = "fma"
    /\ \E r \in Responses :
          /\ fState' = fetch_url_fma_step(fState, r)
          /\ fLast' = r
          /\ fAll429' = (fAll429 /\ r.kind = "status" /\ r.status = 429)
    /\ UNCHANGED <<fVariant, fCalls, pageVars, runVars, fmaVars, chatVars, auxVars>>

FetchMon ==
    /\ fState.pc = "running" /\ fVariant = "mon"
    /\ \E r \in Responses :
          /\ fState' = fetch_url_mon_step(fState, r)
          /\ fLast' = r
          /\ fAll429' = (fAll429 /\ r.kind = "status" /\ r.status = 429)
    /\ UNCHANGED <<fVariant, fCalls, pageVars, runVars, fmaVars, chatVars, auxVars>>

NextFetch == FetchCall \/ FetchDemo \/ FetchFMA \/ FetchMon

SpecFetch == InitFetch /\ [][NextFetch]_vars

---------------------------------------------------------------------------
(* SpecPage: calls of the collectors against the upstream's page chains.   *)

InitPage == FetchIdle /\ PageIdle /\ RunIdle

\* The accumulator created once and shared by the calls, as a mutable default
\* argument would be: a call starts with what the previous one left.
CollectorCallSharedList ==
    /\ pgPc # "running"
    /\ \E v \in Variants, c \in Colls, a \in 1 .. NumWorlds, cyc \in BOOLEAN :
          /\ pgVariant' = v
          /\ pgColl' = c
          /\ pgAcct' = a
          /\ pgCyclic' = cyc
    /\ pgNxt' = 1
    /\ pgAcc' = pgAcc
    /\ pgFetched' = 0
    /\ pgGets' = <<>>
    /\ pgPc' = "running"
    /\ UNCHANGED <<fetchVars, runVars, fmaVars, chatVars, auxVars>>

\* A collector is called: `ads, nxt = [], url`.
CollectorCall ==
    /\ pgPc # "running"
    /\ \E v \in Variants, c \in Colls, a \in 1 .. NumWorlds, cyc \in BOOLEAN :
          /\ pgVariant' = v
          /\ pgColl' = c
          /\ pgAcct' = a
          /\ pgCyclic' = cyc
    /\ pgNxt' = 1
    /\ pgAcc' = <<>>
    /\ pgFetched' = 0
    /\ pgGets' = <<>>
    /\ pgPc' = "running"
    /\ UNCHANGED <<fetchVars, runVars, fmaVars, chatVars, auxVars>>

CollectorStep ==
    /\ pgPc = "running"
    /\ pgFetched < MaxPageFetches
    /\ \E sc \in Scripts :
          LET it == CollectorIter(pgVariant, pgAcct, pgColl, pgCyclic, pgNxt,
                                  pgAcc, fetch_url(pgVariant, sc))
          IN /\ pgPc' = it.pc
             /\ pgNxt' = it.nxt
             /\ pgAcc' = it.acc
             /\ pgGets' = Append(pgGets, fetch_url(pgVariant, sc).gets)
    /\ pgFetched' = pgFetched + 1
    /\ UNCHANGED <<fetchVars, runVars, fmaVars, chatVars, auxVars, pgVariant, pgColl, pgAcct, pgCyclic>>

NextPage == CollectorCall \/ CollectorStep

SpecPage == InitPage /\ [][NextPage]_vars

\* C8 (pagination), as claimed: a collector that has returned from an upstream
\* of N linked pages holds exactly the items of all N pages, in page order,
\* each once.
C8_Concatenation ==
    (pgPc = "returned" /\ ~pgCyclic /\ pgVariant \in {"demo", "fma"})
        => pgAcc = AllItems(pgAcct, pgColl)

\* C9 (page cap), as claimed: a collector stops following cursors after a
\* fixed number of pages, so on an upstream that returns a next cursor on
\* every page it is no longer running once MaxPageFetches pages are fetched.
C9_PageCap ==
    pgFetched >= MaxPageFetches => pgPc # "running"

\* The attempt cap the specification calls MAX_RETRIES: tries / max_retries.
MAX_RETRIES == tries

\* C4 (backoff bound): a call of fetch_url never issues more than MAX_RETRIES
\* GETs, is finished once it has issued that many, and a call that was
\* answered 429 every time ends by raising, in demo.py and fetch_meta_ads.py
\* after exactly MAX_RETRIES GETs.
C4_BackoffBound ==
    /\ fState.gets <= MAX_RETRIES
    /\ (fState.pc = "running" => fState.gets < MAX_RETRIES)
    /\ (fAll429 /\ fState.gets > 0 /\ fState.pc # "running"
           => fState.pc = "raised")
    /\ (fAll429 /\ fState.pc = "raised" /\ fVariant \in {"demo", "fma"}
           => fState.gets = MAX_RETRIES)

C4_Witness ==
    /\ fVariant = "demo" /\ fAll429
    /\ fState.pc = "raised" /\ fState.gets = MAX_RETRIES

Permanent4xx(r) ==
    r.kind = "status" /\ r.status \in {400, 403, 404} /\ ~r.too_many

Retryable(r) ==
    \/ r.kind = "client_error"
    \/ r.kind = "status" /\ r.status \in {429, 500, 503}

\* C5 (permanent failure), as claimed: once fetch_url of demo.py or
\* fetch_meta_ads.py has been answered a 4xx other than 429, it has raised
\* after that single GET, without scheduling a retry or a backoff sleep.
C5_NoRetryOn4xx ==
    (fVariant \in {"demo", "fma"} /\ Permanent4xx(fLast))
        => /\ fState.pc = "raised"
           /\ fState.gets = 1
           /\ ~fState.retried

\* C6 (retry on transient failures), as claimed: after a 429, a 5xx or a
\* transport error that leaves attempts within the cap, fetch_url goes on to
\* another attempt (so that a following 200 is returned) instead of raising.
C6_RetriesTransient ==
    (Retryable(fLast) /\ fState.gets < MAX_RETRIES) => fState.pc = "running"

\* C7 (Retry-After), as claimed: when fetch_url of demo.py retries after a 429
\* that carries Retry-After, the delay before its next attempt is that value.
C7_HonoursRetryAfter ==
    (/\ fVariant = "demo"
     /\ fLast.kind = "status" /\ fLast.status = 429 /\ fLast.retry_after > 0
     /\ fState.pc = "running")
        => fState.delay = fLast.retry_after * TicksPerSecond

---------------------------------------------------------------------------
(* Spec: a run of demo.py main.                                            *)

Init ==
    /\ FetchIdle /\ PageIdle /\ RunStart
    /\ prog = "demo"
    /\ rejects \in RejectSets
    /\ indexed \in BOOLEAN
    /\ FmaStartVars /\ creativesDown = {}
    /\ ChatIdle

\* A collector of `variant` is called for the current account.
StartCollector(variant, coll) ==
    /\ pgVariant' = variant
    /\ pgColl' = coll
    /\ pgAcct' = cur
    /\ pgCyclic' = FALSE
    /\ pgNxt' = 1
    /\ pgAcc' = <<>>
    /\ pgFetched' = 0
    /\ pgGets' = <<>>
    /\ pgPc' = "running"

\* The collector's frame is gone.
DropCollector ==
    /\ pgNxt' = 0
    /\ pgAcc' = <<>>
    /\ pgFetched' = 0
    /\ pgGets' = <<>>
    /\ pgPc' = "idle"
    /\ UNCHANGED <<pgVariant, pgColl, pgAcct, pgCyclic>>

\* The lookup maps held at module level: they outlive process_account.
DropLocalsKeepsMaps ==
    /\ insights' = <<>>
    /\ ads' = ads
    /\ camps' = camps
    /\ rows' = <<>>
    /\ batchI' = 0

\* process_account has returned or been left: its locals are gone.
DropLocals ==
    /\ insights' = <<>>
    /\ ads' = <<>>
    /\ camps' = <<>>
    /\ rows' = <<>>
    /\ batchI' = 0

\* main, lines 266-268, and process_account up to the call of fetch_insights.
DemoStart ==
    /\ stage = "next" /\ cur <= NumAccounts
    /\ stage' = "fetch"
    /\ status' = [status EXCEPT ![cur] = "FETCHING"]
    /\ StartCollector("demo", "insights")
    /\ UNCHANGED <<fetchVars, fmaVars, chatVars, auxVars, cur, insights, ads, camps, rows, batchI, store,
                   deadLetter, abortCause, rejects, indexed, fetchRaised, lastBatch>>

\* process_account, lines 151-155: a collector returned; the next one is called.
DemoCollected ==
    /\ stage = "fetch" /\ pgPc = "returned"
    /\ CASE pgColl = "insights" ->
              /\ insights' = pgAcc
              /\ StartCollector("demo", "ads")
              /\ UNCHANGED <<ads, camps, stage, status>>
         [] pgColl = "ads" ->
              /\ ads' = ads_map(pgAcc)
              /\ StartCollector("demo", "campaigns")
              /\ UNCHANGED <<insights, camps, stage, status>>
         [] OTHER ->
              /\ camps' = campaigns_map(pgAcc)
              /\ DropCollector
              /\ stage' = "assemble"
              /\ status' = [status EXCEPT ![cur] = "ASSEMBLING"]
              /\ UNCHANGED <<insights, ads>>
    /\ UNCHANGED <<fetchVars, fmaVars, chatVars, auxVars, cur, rows, batchI, store, deadLetter, abortCause,
                   rejects, indexed, fetchRaised, lastBatch>>

\* The fetch failure left uncaught: it leaves process_account and main.
FetchFailedPropagates ==
    /\ stage' = "aborted"
    /\ status' = status
    /\ abortCause' = "exception"

\* The fetch failure answered by processing the same account once more.
FetchFailedRetries ==
    /\ stage' = "next"
    /\ status' = [status EXCEPT ![cur] = "SKIPPED"]
    /\ abortCause' = abortCause

\* process_account, lines 156-158: `except Exception` around the three fetches.
FetchFailedReturn ==
    /\ stage' = "pace"
    /\ status' = [status EXCEPT ![cur] = "SKIPPED"]
    /\ abortCause' = abortCause

\* The three fetches gathered instead of awaited in turn: after a failure the
\* remaining collections are requested all the same.
DemoFetchFailedGathered ==
    /\ stage = "fetch" /\ pgPc = "raised"
    /\ fetchRaised' = fetchRaised \cup {cur}
    /\ IF pgColl = "campaigns"
       THEN FetchFailedReturn /\ DropCollector /\ DropLocals
       ELSE /\ StartCollector("demo", IF pgColl = "insights" THEN "ads"
                                       ELSE "campaigns")
            /\ UNCHANGED <<stage, status, abortCause, insights, ads, camps, rows,
                           batchI>>
    /\ UNCHANGED <<fetchVars, fmaVars, chatVars, auxVars, cur, store, deadLetter, rejects, indexed, lastBatch>>

DemoFetchFailed ==
    /\ stage = "fetch" /\ pgPc = "raised"
    /\ FetchFailedReturn
    /\ fetchRaised' = fetchRaised \cup {cur}
    /\ DropCollector
    /\ DropLocals
    /\ UNCHANGED <<fetchVars, fmaVars, chatVars, auxVars, cur, store, deadLetter, rejects, indexed, lastBatch>>

\* The batch loop started as a task that nobody awaits: process_account
\* returns to main while the account's rows are still to be written.
DemoAssembleDetached ==
    /\ stage = "assemble"
    /\ LET rs == demo_rows(Act(cur), Business(cur), insights, ads, camps) IN
       /\ rows' = rs
       /\ stage' = "pace"
       /\ status' = [status EXCEPT ![cur] = IF rs = <<>> THEN "DONE" ELSE "WRITING"]
    /\ batchI' = 0
    /\ UNCHANGED <<fetchVars, fmaVars, chatVars, auxVars, pageVars, cur, insights, ads, camps, store,
                   deadLetter, abortCause, rejects, indexed, fetchRaised, lastBatch>>

\* process_account without `if not rows: return`, writing whatever was
\* assembled, an empty list included.
DemoAssembleUnguarded ==
    /\ stage = "assemble"
    /\ LET rs == demo_rows(Act(cur), Business(cur), insights, ads, camps) IN
       /\ rows' = rs
       /\ stage' = "write"
       /\ status' = [status EXCEPT ![cur] = "WRITING"]
    /\ batchI' = 0
    /\ UNCHANGED <<fetchVars, fmaVars, chatVars, auxVars, pageVars, cur, insights, ads, camps, store,
                   deadLetter, abortCause, rejects, indexed, fetchRaised, lastBatch>>

\* process_account, lines 160-210: the rows are assembled; none: return.
DemoAssemble ==
    /\ stage = "assemble"
    /\ LET rs == demo_rows(Act(cur), Business(cur), insights, ads, camps) IN
       /\ rows' = rs
       /\ IF rs = <<>>
          THEN /\ stage' = "pace"
               /\ status' = [status EXCEPT ![cur] = "DONE"]
          ELSE /\ stage' = "write"
               /\ status' = [status EXCEPT ![cur] = "WRITING"]
    /\ batchI' = 0
    /\ UNCHANGED <<fetchVars, fmaVars, chatVars, auxVars, pageVars, cur, insights, ads, camps, store,
                   deadLetter, abortCause, rejects, indexed, fetchRaised, lastBatch>>

\* What the upsert of a batch can do: without the unique index it fails with
\* 42P10; a batch holding a row the store rejects fails; any batch can fail.
BatchOutcomes(batch) ==
    IF ~indexed THEN {StoreErr(c, "42P10") : c \in ErrClasses}
    ELSE {StoreErr(c, code) : c \in ErrClasses, code \in {"PGRST100", "23514"}}
         \cup (IF \E i \in DOMAIN batch : UNIQUE_KEYS(batch[i]) \in rejects
               THEN {} ELSE {StoreOk})

Rejected(r) == UNIQUE_KEYS(r) \in rejects

Accepted(r) == ~Rejected(r)

\* log_bad_rows(bad, f"{business}_batch_{i//BATCH_SIZE + 1}")
log_bad_rows(log, bad, business, i) ==
    Append(log, [label |-> <<business, (i \div BATCH_SIZE) + 1>>, rows |-> bad])

\* The end of one iteration of the batch loop: the next batch, or the return.
BatchAdvance ==
    IF batchI + BATCH_SIZE < Len(rows)
    THEN /\ batchI' = batchI + BATCH_SIZE
         /\ UNCHANGED <<stage, status, rows, insights, ads, camps>>
    ELSE /\ stage' = "pace"
         /\ status' = [status EXCEPT ![cur] = "DONE"]
         /\ UNCHANGED <<batchI, rows, insights, ads, camps>>

\* An exception leaves process_account and main: the run ends with a traceback.
Escapes ==
    /\ stage' = "aborted"
    /\ abortCause' = "exception"
    /\ UNCHANGED <<status, batchI, rows, insights, ads, camps, store, deadLetter>>

\* The row-by-row fallback of lines 225-233 for `batch`.
DemoFallback(batch) ==
    /\ store' = Upsert(store, SelectSeq(batch, Accepted))
    /\ deadLetter' = IF SelectSeq(batch, Rejected) # <<>>
                     THEN log_bad_rows(deadLetter, SelectSeq(batch, Rejected),
                                       Business(cur), batchI)
                     ELSE deadLetter

\* The structural failure handled like any other: every row fails alone and
\* is logged, and the batch loop goes on.
ExitStructuralOmitted ==
    /\ store' = store
    /\ deadLetter' = log_bad_rows(deadLetter, SliceOf(rows, batchI),
                                  Business(cur), batchI)
    /\ BatchAdvance
    /\ UNCHANGED abortCause

\* sys.exit(1) of line 222.
ExitStructural ==
    /\ stage' = "aborted"
    /\ abortCause' = "structural"
    /\ UNCHANGED <<status, batchI, rows, insights, ads, camps, store, deadLetter>>

\* process_account, lines 212-237: one iteration of the batch loop.
DemoWriteBatch ==
    /\ stage = "write"
    /\ LET batch == SliceOf(rows, batchI) IN
       \E err \in BatchOutcomes(batch) :
          /\ lastBatch' = [acct |-> cur, i |-> batchI, err |-> err]
          /\ batchErrs' = IF err = StoreOk THEN batchErrs ELSE batchErrs + 1
          /\ issued' = IF batchI = 0 THEN <<batch>> ELSE Append(issued, batch)
          /\ IF err = StoreOk
             THEN /\ store' = Upsert(store, batch)
                  /\ BatchAdvance
                  /\ UNCHANGED <<deadLetter, abortCause>>
             ELSE IF err.cls # "SupabaseException"
             THEN Escapes
             ELSE IF IsStructural(err)
             THEN ExitStructural
             ELSE /\ DemoFallback(batch)
                  /\ BatchAdvance
                  /\ UNCHANGED abortCause
    /\ UNCHANGED <<fetchVars, fmaVars, chatVars, run, firstStore, prog, paces, pageVars, cur, rejects, indexed, fetchRaised>>

\* The pacing sleep moved into process_account's normal end, so that the early
\* return of a failed fetch passes it by.
PaceUnlessSkipped ==
    /\ stage = "pace"
    /\ stage' = "next"
    /\ cur' = cur + 1
    /\ DropLocals
    /\ paces' = IF status[cur] = "SKIPPED" THEN paces ELSE paces + 1
    /\ UNCHANGED <<fetchVars, fmaVars, chatVars, run, firstStore, batchErrs, prog, issued,
                   pageVars, status, store, deadLetter, abortCause,
                   rejects, indexed, fetchRaised, lastBatch>>

\* main, line 269: the pacing sleep, then the next account of the list.
Pace ==
    /\ stage = "pace"
    /\ stage' = "next"
    /\ cur' = cur + 1
    /\ DropLocals
    /\ paces' = paces + 1
    /\ UNCHANGED <<fetchVars, fmaVars, chatVars, run, firstStore, batchErrs, prog, issued,
                   pageVars, status, store, deadLetter, abortCause,
                   rejects, indexed, fetchRaised, lastBatch>>

\* main: the account list is exhausted.
MainEnd ==
    /\ stage = "next" /\ cur > NumAccounts
    /\ stage' = "finished"
    /\ UNCHANGED <<fetchVars, fmaVars, chatVars, auxVars, pageVars, cur, status, insights, ads, camps, rows,
                   batchI, store, deadLetter, abortCause, rejects, indexed,
                   fetchRaised, lastBatch>>

Next ==
    \/ DemoStart
    \/ CollectorStep
    \/ DemoCollected
    \/ DemoFetchFailed
    \/ DemoAssemble
    \/ DemoWriteBatch
    \/ Pace
    \/ MainEnd

Spec == Init /\ [][Next]_vars

\* The rows process_account assembles for account a from the upstream's data.
ExpectedRows(a) ==
    demo_rows(Act(a), Business(a), AllItems(a, "insights"),
              ads_map(AllItems(a, "ads")), campaigns_map(AllItems(a, "campaigns")))

StoredRowsOf(a) == {k \in DOMAIN store : k[1] = Act(a)}

\* C1 (isolation): an account whose fetch raised is SKIPPED and contributes
\* nothing to the store; its failure never aborts the run; and when main has
\* run through the list every other account is DONE with every row the store
\* accepts persisted as assembled.
C1_Isolation ==
    /\ \A a \in fetchRaised : status[a] = "SKIPPED" /\ StoredRowsOf(a) = {}
    /\ stage = "aborted" => cur \notin fetchRaised
    /\ stage = "finished" =>
          \A a \in Accounts \ fetchRaised :
             /\ status[a] = "DONE"
             /\ \A i \in DOMAIN ExpectedRows(a) :
                   LET r == ExpectedRows(a)[i] IN
                   Accepted(r) =>
                      /\ UNIQUE_KEYS(r) \in DOMAIN store
                      /\ store[UNIQUE_KEYS(r)] = r

\* Three accounts, the second failing: the first and third are DONE and
\* stored, the second SKIPPED, and the run has ended normally.
C1_Witness ==
    /\ stage = "finished" /\ abortCause = "none"
    /\ fetchRaised = {2}
    /\ status[1] = "DONE" /\ status[2] = "SKIPPED" /\ status[3] = "DONE"
    /\ StoredRowsOf(1) # {} /\ StoredRowsOf(3) # {}

\* C2 (containment), as claimed: with the unique index in place (so that no
\* structural failure can occur) no exception raised while an account is
\* processed escapes main: the run is never aborted.
C2_Contained ==
    indexed => stage # "aborted"

\* C3 (termination), as claimed: whenever the run has ended without a batch
\* upsert having reported the structural failure 42P10, it has ended normally
\* and every account of the list is DONE or SKIPPED.
C3_AllTerminal ==
    (stage \in {"finished", "aborted"} /\ lastBatch.err.code # "42P10")
        => /\ stage = "finished"
           /\ \A a \in Accounts : status[a] \in {"DONE", "SKIPPED"}

---------------------------------------------------------------------------
(* SpecFMA: a run of fetch_meta_ads.py main.                               *)

\* generate_deterministic_uuid(ad_id, date_str): a digest of f"{ad_id}-{date_str}",
\* one value per pair (None formats as the text "None").
generate_deterministic_uuid(ad_id, date_str) == <<"uuid", ad_id, date_str>>

\* on_conflict=["id"]
FmaKey(row) == row.id

\* d.get(k), as an option.
GetOpt(d, k) == IF k \in DOMAIN d THEN Some(d[k]) ELSE None

\* x or y, on options.
OrElse(x, y) == IF x # None THEN x ELSE y

ImageHash(adid) == 900000 + adid

\* The "data" of /{ad_id}/adcreatives: ads with an odd id carry one image
\* creative, the others none.
UpCreatives(adid) ==
    IF adid % 2 = 1
    THEN << [id |-> <<"creative", adid>>,
             thumbnail_url |-> <<"thumb", adid>>,
             object_story_spec |->
                [link_data |-> [name |-> <<"headline", adid>>,
                                message |-> <<"message", adid>>,
                                image_hash |-> ImageHash(adid),
                                call_to_action |-> [type |-> "SIGN_UP"]]]] >>
    ELSE <<>>

\* get_image_url_from_hash against an upstream that knows every hash.
get_image_url_from_hash(image_hash) == Some(<<"image", image_hash>>)

extract_creative_elements(creative) ==
    LET oss  == Get(creative, "object_story_spec", <<>>)
        feed == Get(creative, "asset_feed_spec", <<>>)
        ld   == Get(oss, "link_data", <<>>)
        vd   == Get(oss, "video_data", <<>>)
        isLd == "link_data" \in DOMAIN oss
        isVd == ~isLd /\ "video_data" \in DOMAIN oss
        tpl  == IF "ad_templates" \in DOMAIN feed /\ Len(feed.ad_templates) > 0
                THEN feed.ad_templates[1] ELSE <<>>
        head0 == IF isLd THEN GetOpt(ld, "name")
                 ELSE IF isVd THEN GetOpt(vd, "title") ELSE None
        desc0 == IF isLd THEN OrElse(GetOpt(ld, "description"), GetOpt(ld, "message"))
                 ELSE IF isVd THEN GetOpt(vd, "message") ELSE None
        cta   == IF isLd /\ "call_to_action" \in DOMAIN ld
                 THEN GetOpt(ld.call_to_action, "type")
                 ELSE IF isVd /\ "call_to_action" \in DOMAIN vd
                 THEN GetOpt(vd.call_to_action, "type") ELSE None
        hash0 == IF isLd THEN GetOpt(ld, "image_hash") ELSE None
        hash1 == IF "images" \in DOMAIN feed /\ Len(feed.images) > 0
                 THEN GetOpt(feed.images[1], "hash") ELSE hash0
    IN [creative_id   |-> GetOpt(creative, "id"),
        headline      |-> OrElse(GetOpt(tpl, "title"), head0),
        description   |-> OrElse(GetOpt(tpl, "body"), desc0),
        cta_type      |-> cta,
        thumbnail_url |-> GetOpt(creative, "thumbnail_url"),
        image_hash    |-> hash1]

\* creative_elements = {}: every .get() of the row yields None.
NoCreative ==
    [creative_id |-> None, headline |-> None, description |-> None,
     cta_type |-> None, thumbnail_url |-> None, image_hash |-> None]

\* sum(int(a.get("value", 0)) for a in actions if a.get("action_type") == t)
RECURSIVE SumExact(_, _)
SumExact(acts, t) ==
    IF acts = <<>> THEN 0
    ELSE (IF Get(Head(acts), "action_type", "") = t
          THEN Get(Head(acts), "value", 0) ELSE 0)
         + SumExact(Tail(acts), t)

\* Whether int() / float() accept every text of the row, lines 262-273.
FmaRowParses(ins) ==
    /\ Get(ins, "bad", {})
          \cap {"impressions", "clicks", "spend", "frequency", "reach"} = {}
    /\ \A i \in DOMAIN Get(ins, "actions", <<>>) :
          Get(ins.actions[i], "action_type", "") \in {"lead", "purchase"}
             => ~Get(ins.actions[i], "bad", FALSE)

\* The dictionary of lines 277-312, for the creative elements ce, the image
\* url and the time `now`.
fma_row(act, business, ins, adm, cm, ce, image_url, now) ==
    LET ad_id == GetOpt(ins, "ad_id")
        date  == GetOpt(ins, "date_start")
        ad    == IF ad_id # None THEN Get(adm, ad_id[1], <<>>) ELSE <<>>
        cid   == GetOpt(ad, "campaign_id")
        known == cid # None /\ cid[1] \in DOMAIN cm
        impr  == Get(ins, "impressions", 0)
        clk   == Get(ins, "clicks", 0)
        spd   == Get(ins, "spend", 0)
        acts  == Get(ins, "actions", <<>>)
        leads == SumExact(acts, "lead")
        purch == SumExact(acts, "purchase")
        conv  == leads + purch
    IN [id             |-> generate_deterministic_uuid(ad_id, date),
        ad_id          |-> ad_id,
        account_id     |-> act,
        business_name  |-> business,
        ad_name        |-> Get(ad, "name", <<"Unknown">>),
        campaign_id    |-> cid,
        campaign_name  |-> IF known THEN Some(cm[cid[1]].campaign_name) ELSE None,
        impressions    |-> impr,
        clicks         |-> clk,
        ctr            |-> IF impr # 0 THEN Ratio(clk * 100, impr) ELSE Ratio(0, 1),
        spend          |-> spd,
        daily_budget   |-> IF known THEN cm[cid[1]].daily_budget ELSE None,
        cpc            |-> IF clk # 0 THEN Ratio(spd, clk) ELSE Ratio(0, 1),
        cpm            |-> IF impr # 0 THEN Ratio(spd * 1000, impr) ELSE Ratio(0, 1),
        frequency      |-> Get(ins, "frequency", 0),
        reach          |-> Get(ins, "reach", 0),
        conversions    |-> conv,
        leads          |-> leads,
        purchases      |-> purch,
        cpa            |-> IF conv # 0 THEN Ratio(spd, conv) ELSE Ratio(0, 1),
        date           |-> date,
        flagged        |-> FALSE,
        flagged_reason |-> None,
        creative_id    |-> ce.creative_id,
        headline       |-> ce.headline,
        description    |-> ce.description,
        cta_type       |-> ce.cta_type,
        thumbnail_url  |-> ce.thumbnail_url,
        image_url      |-> image_url,
        updated_at     |-> now]

\* The deployments a run of fetch_meta_ads.py starts in.
CreativesDownSets == { {}, {AdId(1, 2)} }

InitFMA ==
    /\ FetchIdle /\ PageIdle /\ RunStart
    /\ prog = "fma"
    /\ rejects \in RejectSets
    /\ indexed \in BOOLEAN
    /\ FmaStartVars
    /\ creativesDown \in CreativesDownSets
    /\ ChatIdle

\* main, lines 365-368, and process_and_save up to the call of fetch_insights.
FmaStart ==
    /\ stage = "next" /\ cur <= NumAccounts
    /\ stage' = "fetch"
    /\ status' = [status EXCEPT ![cur] = "FETCHING"]
    /\ StartCollector("fma", "insights")
    /\ UNCHANGED <<fetchVars, fmaVars, chatVars, auxVars, cur, insights, ads, camps, rows, batchI, store,
                   deadLetter, abortCause, rejects, indexed, fetchRaised, lastBatch>>

\* process_and_save, lines 209-220: a collector returned; the next one is
\* called, and after the last the row loop starts with an empty cache.
FmaCollected ==
    /\ stage = "fetch" /\ pgPc = "returned"
    /\ CASE pgColl = "insights" ->
              /\ insights' = pgAcc
              /\ StartCollector("fma", "ads")
              /\ UNCHANGED <<ads, camps, stage, status>>
         [] pgColl = "ads" ->
              /\ ads' = ads_map(pgAcc)
              /\ StartCollector("fma", "campaigns")
              /\ UNCHANGED <<insights, camps, stage, status>>
         [] OTHER ->
              /\ camps' = campaigns_map(pgAcc)
              /\ DropCollector
              /\ stage' = "assemble"
              /\ status' = [status EXCEPT ![cur] = "ASSEMBLING"]
              /\ UNCHANGED <<insights, ads>>
    /\ UNCHANGED <<fetchVars, fmaVars, chatVars, auxVars, cur, rows, batchI, store, deadLetter, abortCause,
                   rejects, indexed, fetchRaised, lastBatch>>

\* process_and_save, lines 212-214: `except Exception` around the three fetches.
FmaFetchFailed ==
    /\ stage = "fetch" /\ pgPc = "raised"
    /\ stage' = "pace"
    /\ status' = [status EXCEPT ![cur] = "SKIPPED"]
    /\ fetchRaised' = fetchRaised \cup {cur}
    /\ DropCollector
    /\ DropLocals
    /\ UNCHANGED <<fetchVars, fmaVars, chatVars, auxVars, cur, store, deadLetter, abortCause, rejects,
                   indexed, lastBatch>>

\* The creatives request for ad_id raises: the endpoint is down for that ad,
\* or there is no ad_id to ask for.
CreativesRaise(ad_id) == ad_id = None \/ ad_id[1] \in creativesDown

ReqKey(ad_id) == IF ad_id = None THEN 0 ELSE ad_id[1]

\* process_and_save, lines 222-319: one iteration of the row loop, with its
\* creative and image lookups through creative_cache; after the last row, the
\* check for an empty row list.
FmaAssemble ==
    /\ stage = "assemble"
    /\ IF rowI < Len(insights)
       THEN LET ins    == insights[rowI + 1]
                ad_id  == GetOpt(ins, "ad_id")
                ck     == <<"ad", ReqKey(ad_id)>>
                cached == ad_id # None /\ ck \in DOMAIN creative_cache
                raises == ~cached /\ CreativesRaise(ad_id)
                creatives == IF cached THEN creative_cache[ck]
                             ELSE UpCreatives(ad_id[1])
                cache1 == IF cached \/ raises THEN creative_cache
                          ELSE (ck :> creatives) @@ creative_cache
                ce     == IF raises \/ Len(creatives) = 0 THEN NoCreative
                          ELSE extract_creative_elements(creatives[1])
                ik     == <<"img", IF ce.image_hash = None THEN 0
                                   ELSE ce.image_hash[1]>>
                image_url == IF ce.image_hash = None THEN None
                             ELSE IF ik \in DOMAIN cache1 THEN cache1[ik]
                             ELSE get_image_url_from_hash(ce.image_hash[1])
                cache2 == IF raises \/ ce.image_hash = None \/ ik \in DOMAIN cache1
                          THEN cache1
                          ELSE (ik :> image_url) @@ cache1
            IN /\ rowI' = rowI + 1
               /\ creative_cache' = cache2
               /\ creativeReqs' =
                     IF cached THEN creativeReqs
                     ELSE (ReqKey(ad_id) :> Get(creativeReqs, ReqKey(ad_id), 0) + 1)
                          @@ creativeReqs
               /\ clock' = clock + 1
               /\ rows' = IF raises \/ ~FmaRowParses(ins) THEN rows
                          ELSE Append(rows, fma_row(Act(cur), Business(cur), ins, ads,
                                                    camps, ce, image_url, clock))
               /\ UNCHANGED <<stage, status>>
       ELSE /\ IF rows = <<>>
               THEN /\ stage' = "pace"
                    /\ status' = [status EXCEPT ![cur] = "DONE"]
               ELSE /\ stage' = "write"
                    /\ status' = [status EXCEPT ![cur] = "WRITING"]
            /\ UNCHANGED <<rowI, creative_cache, creativeReqs, clock, rows>>
    /\ batchI' = 0
    /\ UNCHANGED <<fetchVars, chatVars, auxVars, pageVars, creativesDown, cur, insights, ads, camps, store,
                   deadLetter, abortCause, rejects, indexed, fetchRaised, lastBatch>>

\* The store rejects the row on its own (its content violates a constraint).
FmaRejected(r) ==
    /\ r.ad_id # None /\ r.date # None
    /\ <<r.account_id, r.ad_id[1], r.date[1]>> \in rejects

FmaAccepted(r) == ~FmaRejected(r)

\* upsert(batch, on_conflict=["id"]) that succeeds: insert or overwrite.
FmaUpsert(table, batch) ==
    LET keys == {FmaKey(batch[i]) : i \in DOMAIN batch} IN
    [k \in DOMAIN table \cup keys |->
        IF k \in keys
        THEN batch[CHOOSE i \in DOMAIN batch :
                      /\ FmaKey(batch[i]) = k
                      /\ \A j \in DOMAIN batch : FmaKey(batch[j]) = k => j <= i]
             @@ OldColumns(table, k)
        ELSE table[k]]

FmaBatchOutcomes(batch) ==
    IF ~indexed THEN {StoreErr(c, "42P10") : c \in ErrClasses}
    ELSE {StoreErr(c, code) : c \in ErrClasses, code \in {"PGRST100", "23514"}}
         \cup (IF \E i \in DOMAIN batch : FmaRejected(batch[i])
               THEN {} ELSE {StoreOk})

\* process_and_save, lines 324-354: one iteration of the batch loop.  Only the
\* code PGRST100 leads to the row-by-row upserts, whose failures are printed.
FmaWriteBatch ==
    /\ stage = "write"
    /\ LET batch == SliceOf(rows, batchI) IN
       \E err \in FmaBatchOutcomes(batch) :
          /\ lastBatch' = [acct |-> cur, i |-> batchI, err |-> err]
          /\ batchErrs' = IF err = StoreOk THEN batchErrs ELSE batchErrs + 1
          /\ issued' = IF batchI = 0 THEN <<batch>> ELSE Append(issued, batch)
          /\ store' = IF err = StoreOk THEN FmaUpsert(store, batch)
                      ELSE IF err.code = "PGRST100"
                      THEN FmaUpsert(store, SelectSeq(batch, FmaAccepted))
                      ELSE store
    /\ BatchAdvance
    /\ UNCHANGED <<fetchVars, fmaVars, chatVars, run, firstStore, prog, paces, pageVars, cur, deadLetter, abortCause, rejects,
                   indexed, fetchRaised>>

\* main, line 371: the pacing sleep, then the next account of the list.
FmaPace ==
    /\ stage = "pace"
    /\ stage' = "next"
    /\ cur' = cur + 1
    /\ DropLocals
    /\ rowI' = 0
    /\ creative_cache' = <<>>
    /\ creativeReqs' = <<>>
    /\ paces' = paces + 1
    /\ UNCHANGED <<fetchVars, chatVars, run, firstStore, batchErrs, prog, issued, pageVars,
                   clock, creativesDown, status, store, deadLetter,
                   abortCause, rejects, indexed, fetchRaised, lastBatch>>

NextFMA ==
    \/ FmaStart
    \/ CollectorStep
    \/ FmaCollected
    \/ FmaFetchFailed
    \/ FmaAssemble
    \/ FmaWriteBatch
    \/ FmaPace
    \/ MainEnd

SpecFMA == InitFMA /\ [][NextFMA]_vars

\* The batch of the latest iteration of the batch loop, while the row list of
\* its account is still held.
LatestBatchFailed ==
    /\ stage \in {"write", "pace"} /\ lastBatch.acct = cur
    /\ lastBatch.err # StoreOk /\ lastBatch.err.code # "42P10"

DeadLettered(r) ==
    \E e \in DOMAIN deadLetter :
       \E j \in DOMAIN deadLetter[e].rows : deadLetter[e].rows[j] = r

\* C10 (batch fallback), as claimed: after a batch upsert of fetch_meta_ads.py
\* failed with a non-structural error, whatever its code, every row of that
\* batch has been either persisted or written to the dead-letter log.
C10_BatchFallback ==
    LatestBatchFailed =>
        \A i \in DOMAIN SliceOf(rows, lastBatch.i) :
           LET r == SliceOf(rows, lastBatch.i)[i] IN
           \/ FmaKey(r) \in DOMAIN store /\ store[FmaKey(r)] = r
           \/ DeadLettered(r)

---------------------------------------------------------------------------
(* Re-ingestion: the script is executed again over the same date window,   *)
(* against the same upstream data and the table the last execution left.   *)

\* `asyncio.run(main())`, once more after main has returned.
Rerun ==
    /\ stage = "finished" /\ run < MaxRuns
    /\ run' = run + 1
    /\ firstStore' = store
    /\ cur' = 1
    /\ stage' = "next"
    /\ status' = [a \in Accounts |-> "PENDING"]
    /\ lastBatch' = NoBatch
    /\ paces' = 0
    /\ UNCHANGED <<fetchVars, pageVars, fmaVars, chatVars, batchErrs, prog, issued, insights, ads, camps, rows,
                   batchI, store, deadLetter, abortCause, rejects, indexed,
                   fetchRaised>>

NextFMARerun == NextFMA \/ Rerun

SpecFMARerun == InitFMA /\ [][NextFMARerun]_vars

\* No fetch and no batch upsert has failed in any execution so far.
NothingFailed == fetchRaised = {} /\ batchErrs = 0

\* C12 (idempotence), as claimed: when a second execution over the same window
\* and unchanged upstream data has ended, and nothing failed in either, the
\* table holds the same rows with the same content in every field as it did
\* after the first execution.
C12_Idempotent ==
    (run = 2 /\ stage = "finished" /\ NothingFailed) => store = firstStore

---------------------------------------------------------------------------
(* SpecLegacy: a run of meta_ads_monitoring.py ("mon") or of               *)
(* meta_pipeline_fork.py ("fork") main.  Both fetch one page of insights,  *)
(* assemble every row without a try block and issue a single upsert.       *)

LegacyProgs == {"mon", "fork"}

\* The action types whose values the script adds up.
CountedTypes(sc) ==
    IF sc = "mon" THEN {"offsite_conversion", "purchase", "lead"}
    ELSE {"lead", "purchase"}

\* sum(int(a.get("value", 0)) for a in actions if a.get("action_type") in types)
RECURSIVE SumIn(_, _)
SumIn(acts, types) ==
    IF acts = <<>> THEN 0
    ELSE (IF Get(Head(acts), "action_type", "") \in types
          THEN Get(Head(acts), "value", 0) ELSE 0)
         + SumIn(Tail(acts), types)

\* Whether int() / float() raise on a text of the row.
LegacyRowRaises(sc, ins) ==
    \/ Get(ins, "bad", {}) \cap {"impressions", "clicks", "spend", "frequency"} # {}
    \/ \E i \in DOMAIN Get(ins, "actions", <<>>) :
          /\ Get(ins.actions[i], "action_type", "") \in CountedTypes(sc)
          /\ Get(ins.actions[i], "bad", FALSE)

\* The dictionary appended to rows_to_insert: meta_ads_monitoring.py lines
\* 294-314, meta_pipeline_fork.py lines 129-150 (no ad_id; leads, purchases).
legacy_row(sc, act, business, ins, adm, cm) ==
    LET ad_id == GetOpt(ins, "ad_id")
        ad    == IF ad_id # None THEN Get(adm, ad_id[1], <<>>) ELSE <<>>
        cid   == GetOpt(ad, "campaign_id")
        known == cid # None /\ cid[1] \in DOMAIN cm
        impr  == Get(ins, "impressions", 0)
        clk   == Get(ins, "clicks", 0)
        spd   == Get(ins, "spend", 0)
        acts  == Get(ins, "actions", <<>>)
        leads == SumExact(acts, "lead")
        purch == SumExact(acts, "purchase")
        conv  == IF sc = "mon" THEN SumIn(acts, CountedTypes(sc)) ELSE leads + purch
        common ==
           [account_id     |-> act,
            business_name  |-> business,
            ad_name        |-> Get(ad, "name", <<"Unknown">>),
            campaign_id    |-> cid,
            campaign_name  |-> IF known THEN Some(cm[cid[1]].campaign_name) ELSE None,
            impressions    |-> impr,
            clicks         |-> clk,
            ctr            |-> IF impr # 0 THEN Ratio(clk * 100, impr) ELSE Ratio(0, 1),
            spend          |-> spd,
            daily_budget   |-> IF known THEN cm[cid[1]].daily_budget ELSE None,
            cpc            |-> IF clk # 0 THEN Ratio(spd, clk) ELSE Ratio(0, 1),
            cpm            |-> IF impr # 0 THEN Ratio(spd * 1000, impr) ELSE Ratio(0, 1),
            frequency      |-> Get(ins, "frequency", 0),
            conversions    |-> conv,
            cpa            |-> IF conv # 0 THEN Ratio(spd, conv) ELSE Ratio(0, 1),
            date           |-> GetOpt(ins, "date_start"),
            flagged        |-> FALSE,
            flagged_reason |-> None]
    IN IF sc = "mon" THEN common @@ [ad_id |-> ad_id]
       ELSE common @@ [leads |-> leads, purchases |-> purch]

legacy_rows(sc, act, business, data, adm, cm) ==
    [i \in DOMAIN data |-> legacy_row(sc, act, business, data[i], adm, cm)]

\* on_conflict of the upsert: meta_ads_monitoring.py line 317,
\* meta_pipeline_fork.py line 154.
on_conflict(sc) ==
    IF sc = "mon" THEN <<"account_id", "ad_id", "date">>
    ELSE <<"account_id", "date">>

LegacyKey(sc, row) ==
    IF sc = "mon" THEN <<row.account_id, row.ad_id, row.date>>
    ELSE <<row.account_id, row.date>>

\* A NULL in a conflict column never conflicts with anything.
HasNullKey(sc, row) ==
    \/ row.date = None
    \/ sc = "mon" /\ row.ad_id = None

\* Two rows of one statement with the same conflict key: the store refuses
\* the statement (21000: ON CONFLICT DO UPDATE cannot affect a row twice).
HasDuplicateKey(sc, rs) ==
    \E i, j \in DOMAIN rs :
       /\ i < j
       /\ ~HasNullKey(sc, rs[i]) /\ ~HasNullKey(sc, rs[j])
       /\ LegacyKey(sc, rs[i]) = LegacyKey(sc, rs[j])

LegacyRejected(sc, r) ==
    /\ sc = "mon" /\ r.ad_id # None /\ r.date # None
    /\ <<r.account_id, r.ad_id[1], r.date[1]>> \in rejects

LegacyOutcomes(sc, rs) ==
    IF ~indexed THEN {StoreErr(c, "42P10") : c \in ErrClasses}
    ELSE IF HasDuplicateKey(sc, rs) THEN {StoreErr(c, "21000") : c \in ErrClasses}
    ELSE {StoreErr(c, code) : c \in ErrClasses, code \in {"PGRST100", "23514"}}
         \cup (IF \E i \in DOMAIN rs : LegacyRejected(sc, rs[i])
               THEN {} ELSE {StoreOk})

\* The key a row of a statement without duplicates is stored under: its
\* conflict key, or a fresh one when that holds a NULL.
LegacyStoreKey(sc, table, rs, i) ==
    IF HasNullKey(sc, rs[i])
    THEN <<"null", Cardinality(DOMAIN table) + i, 0, 0>>
    ELSE LegacyKey(sc, rs[i])

\* upsert(rows_to_insert, on_conflict=...) that succeeds.
LegacyUpsert(sc, table, rs) ==
    LET keys == {LegacyStoreKey(sc, table, rs, i) : i \in DOMAIN rs} IN
    [k \in DOMAIN table \cup keys |->
        IF k \in keys
        THEN rs[CHOOSE i \in DOMAIN rs : LegacyStoreKey(sc, table, rs, i) = k]
             @@ OldColumns(table, k)
        ELSE table[k]]

InitLegacy ==
    /\ FetchIdle /\ PageIdle /\ RunStart
    /\ prog \in LegacyProgs
    /\ rejects \in RejectSets
    /\ indexed \in BOOLEAN
    /\ FmaStartVars /\ creativesDown = {}
    /\ ChatIdle

\* main's loop head and process_and_save up to the call of fetch_insights.
LegacyStart ==
    /\ stage = "next" /\ cur <= NumAccounts
    /\ stage' = "fetch"
    /\ status' = [status EXCEPT ![cur] = "FETCHING"]
    /\ StartCollector("mon", "insights")
    /\ UNCHANGED <<fetchVars, fmaVars, chatVars, auxVars, cur, insights, ads, camps, rows, batchI,
                   store, deadLetter, abortCause, rejects, indexed, fetchRaised,
                   lastBatch>>

\* process_and_save, the three fetches: a collector returned.
LegacyCollected ==
    /\ stage = "fetch" /\ pgPc = "returned"
    /\ CASE pgColl = "insights" ->
              /\ insights' = pgAcc
              /\ StartCollector("mon", "ads")
              /\ UNCHANGED <<ads, camps, stage, status>>
         [] pgColl = "ads" ->
              /\ ads' = ads_map(pgAcc)
              /\ StartCollector("mon", "campaigns")
              /\ UNCHANGED <<insights, camps, stage, status>>
         [] OTHER ->
              /\ camps' = campaigns_map(pgAcc)
              /\ DropCollector
              /\ stage' = "assemble"
              /\ status' = [status EXCEPT ![cur] = "ASSEMBLING"]
              /\ UNCHANGED <<insights, ads>>
    /\ UNCHANGED <<fetchVars, fmaVars, chatVars, auxVars, cur, rows, batchI, store, deadLetter,
                   abortCause, rejects, indexed, fetchRaised, lastBatch>>

\* A fetch raised: process_and_save has no handler, main's `except Exception`
\* prints "Skipping".
LegacyFetchFailed ==
    /\ stage = "fetch" /\ pgPc = "raised"
    /\ stage' = "pace"
    /\ status' = [status EXCEPT ![cur] = "SKIPPED"]
    /\ fetchRaised' = fetchRaised \cup {cur}
    /\ DropCollector
    /\ DropLocals
    /\ UNCHANGED <<fetchVars, fmaVars, chatVars, auxVars, cur, store, deadLetter, abortCause,
                   rejects, indexed, lastBatch>>

\* process_and_save from the row loop to the upsert: a row that raises, or an
\* upsert that raises, leaves the function for main's `except Exception`.
LegacySave ==
    /\ stage = "assemble"
    /\ stage' = "pace"
    /\ IF \E i \in DOMAIN insights : LegacyRowRaises(prog, insights[i])
       THEN /\ status' = [status EXCEPT ![cur] = "SKIPPED"]
            /\ UNCHANGED <<rows, store, lastBatch, batchErrs, issued>>
       ELSE LET rs == legacy_rows(prog, Act(cur), Business(cur), insights, ads, camps)
            IN /\ rows' = rs
               /\ \E err \in LegacyOutcomes(prog, rs) :
                     /\ lastBatch' = [acct |-> cur, i |-> 0, err |-> err]
                     /\ issued' = <<rs>>
                     /\ batchErrs' = IF err = StoreOk THEN batchErrs
                                     ELSE batchErrs + 1
                     /\ store' = IF err = StoreOk THEN LegacyUpsert(prog, store, rs)
                                 ELSE store
                     /\ status' = [status EXCEPT ![cur] =
                                     IF err = StoreOk THEN "DONE" ELSE "SKIPPED"]
    /\ batchI' = 0
    /\ UNCHANGED <<fetchVars, fmaVars, chatVars, run, firstStore, prog, paces, pageVars, cur, insights,
                   ads, camps, deadLetter, abortCause, rejects, indexed, fetchRaised>>

\* main: asyncio.sleep(3), then the next account of the list.
LegacyPace ==
    /\ stage = "pace"
    /\ stage' = "next"
    /\ cur' = cur + 1
    /\ DropLocals
    /\ paces' = paces + 1
    /\ UNCHANGED <<fetchVars, fmaVars, chatVars, run, firstStore, batchErrs, prog, issued,
                   pageVars, status, store, deadLetter,
                   abortCause, rejects, indexed, fetchRaised, lastBatch>>

NextLegacy ==
    \/ LegacyStart
    \/ CollectorStep
    \/ LegacyCollected
    \/ LegacyFetchFailed
    \/ LegacySave
    \/ LegacyPace
    \/ MainEnd

SpecLegacy == InitLegacy /\ [][NextLegacy]_vars

\* The keys under which the table holds a row equal to r.
StoredAs(r) == {k \in DOMAIN store : store[k] = r}

\* The current account's upsert has been issued and the store had no failure
\* of its own (it accepted the statement, or refused it for its conflict keys).
StatementIssued ==
    /\ stage = "pace" /\ lastBatch.acct = cur
    /\ lastBatch.err.code \in {"none", "21000"}

\* C13 (identity key), as claimed: once the upsert for an account has been
\* issued, any two of its insight rows with the same date and different ad_id
\* are held by the table as two distinct rows.
C13_IdentityKey ==
    StatementIssued =>
        \A i, j \in DOMAIN insights :
           (/\ i < j
            /\ "ad_id" \in DOMAIN insights[i] /\ "ad_id" \in DOMAIN insights[j]
            /\ "date_start" \in DOMAIN insights[i]
            /\ "date_start" \in DOMAIN insights[j]
            /\ insights[i].date_start = insights[j].date_start
            /\ insights[i].ad_id # insights[j].ad_id)
              => \E k1 \in StoredAs(rows[i]), k2 \in StoredAs(rows[j]) : k1 # k2

---------------------------------------------------------------------------
(* SpecRerun: demo.py executed again, with the flagging job of             *)
(* gpt-flaggin.py run in between on the table.                             *)

\* The flags and summaries the flagging job may write for a business.
Verdicts == {[flagged |-> TRUE, reason |-> Some("high cpa"), summary |-> Some("review")]}

\* gpt-flaggin.py update_rows, for one element of ai_results:
\* .update(updates).eq("business_name", row["business_name"])
update_rows_one(table, business, v) ==
    [k \in DOMAIN table |->
        IF table[k].business_name = business
        THEN [flagged |-> v.flagged, flagged_reason |-> v.reason,
              ai_summary |-> v.summary] @@ table[k]
        ELSE table[k]]

\* The flagging job runs between two executions of the ingestion.
update_rows ==
    /\ stage = "finished" /\ run < MaxRuns
    /\ \E b \in {store[k].business_name : k \in DOMAIN store}, v \in Verdicts :
          store' = update_rows_one(store, b, v)
    /\ UNCHANGED <<fetchVars, pageVars, fmaVars, chatVars, auxVars, cur, stage, status, insights,
                   ads, camps, rows, batchI, deadLetter, abortCause, rejects, indexed,
                   fetchRaised, lastBatch>>

NextRerun == Next \/ update_rows \/ Rerun

SpecRerun == Init /\ [][NextRerun]_vars

\* C14 (moderation preserved), as claimed: when a re-ingestion has ended, every
\* row the table held before it still has the flagged and flagged_reason it
\* had then.
C14_ModerationKept ==
    (run = 2 /\ stage = "finished") =>
        \A k \in DOMAIN firstStore :
           /\ k \in DOMAIN store
           /\ store[k].flagged = firstStore[k].flagged
           /\ store[k].flagged_reason = firstStore[k].flagged_reason

\* C15 (full replace), as claimed: a batch upsert that succeeds leaves, for
\* every row of the batch whose key the table already held, exactly the row
\* written: no column of the stored row keeps its previous value.
C15_FullReplace ==
    [][ (stage = "write" /\ lastBatch' # lastBatch /\ lastBatch'.err = StoreOk) =>
           \A i \in DOMAIN SliceOf(rows, batchI) :
              LET r == SliceOf(rows, batchI)[i] IN
              UNIQUE_KEYS(r) \in DOMAIN store => store'[UNIQUE_KEYS(r)] = r ]_vars

\* A raw insight row is well-formed: it has its ad_id and date, its counters
\* are numbers and so are the values of its actions.
WellFormed(ins) ==
    /\ "ad_id" \in DOMAIN ins /\ "date_start" \in DOMAIN ins
    /\ Get(ins, "bad", {}) = {}
    /\ \A i \in DOMAIN Get(ins, "actions", <<>>) : ~Get(ins.actions[i], "bad", FALSE)

\* C16 (malformed rows), as claimed: once the rows of an account have been
\* assembled, they are the well-formed insight rows of the account, one row
\* each and in the original order, whatever malformed rows lie between them.
C16_MalformedDropped ==
    (stage = "pace" /\ cur \notin fetchRaised) =>
        LET wf == SelectSeq(insights, WellFormed) IN
        /\ Len(rows) = Len(wf)
        /\ \A i \in DOMAIN wf :
              /\ rows[i].impressions = wf[i].impressions
              /\ rows[i].clicks = wf[i].clicks
              /\ rows[i].spend = wf[i].spend

\* The rows of the current account are assembled and still held.
RowsAssembled ==
    \/ stage = "write"
    \/ stage = "pace" /\ cur \notin fetchRaised

\* The rows assembled for the insight row ins.
RowsFor(ins) ==
    {i \in DOMAIN rows :
        rows[i].ad_id = ins.ad_id /\ rows[i].date = ins.date_start}

\* C17 (missing reference): every well-formed insight row yields a row to
\* write; if its ad is not in the ad map the row has null campaign_id,
\* campaign_name and daily_budget; if the ad is there but its campaign is not
\* in the campaign map the row has null campaign_name and daily_budget.
C17_MissingReference ==
    (prog = "demo" /\ RowsAssembled) =>
        \A n \in DOMAIN insights :
           LET ins == insights[n] IN
           WellFormed(ins) =>
              /\ RowsFor(ins) # {}
              /\ \A i \in RowsFor(ins) :
                    /\ ins.ad_id \notin DOMAIN ads =>
                          /\ rows[i].campaign_id = None
                          /\ rows[i].campaign_name = None
                          /\ rows[i].daily_budget = None
                    /\ (/\ ins.ad_id \in DOMAIN ads
                        /\ ads[ins.ad_id].campaign_id \notin DOMAIN camps) =>
                          /\ rows[i].campaign_id = Some(ads[ins.ad_id].campaign_id)
                          /\ rows[i].campaign_name = None
                          /\ rows[i].daily_budget = None

\* Account 3 refers to an ad the ads endpoint does not list and to a campaign
\* the campaigns endpoint does not list; both rows are about to be written.
C17_Witness ==
    /\ prog = "demo" /\ stage = "write" /\ cur = 3
    /\ \E i \in DOMAIN rows :
          rows[i].ad_id \notin DOMAIN ads /\ rows[i].campaign_id = None
    /\ \E i \in DOMAIN rows :
          /\ rows[i].ad_id \in DOMAIN ads
          /\ rows[i].campaign_id # None /\ rows[i].campaign_id[1] \notin DOMAIN camps
          /\ rows[i].campaign_name = None

\* The number n, and that the fraction q (a pair numerator, denominator) equals
\* num / den.
Whole(n) == <<n, 1>>

IsQuotient(q, num, den) == q[2] > 0 /\ q[1] * den = num * q[2]

\* C18 (division guards): in every assembled row, impressions = 0 gives
\* ctr = cpm = 0, clicks = 0 gives cpc = 0, conversions = 0 gives cpa = 0;
\* otherwise ctr = clicks / impressions * 100, cpc = spend / clicks,
\* cpm = spend / impressions * 1000, cpa = spend / conversions; and
\* impressions = 200, clicks = 10, spend = 50 give ctr = 5, cpc = 5, cpm = 250.
C18_DivisionGuards ==
    (prog = "demo" /\ RowsAssembled) =>
        /\ Len(rows) = Len(SelectSeq(insights, WellFormed))
        /\ \A i \in DOMAIN rows :
              LET r == rows[i] IN
              /\ IF r.impressions = 0
                 THEN r.ctr = Whole(0) /\ r.cpm = Whole(0)
                 ELSE /\ IsQuotient(r.ctr, r.clicks * 100, r.impressions)
                      /\ IsQuotient(r.cpm, r.spend * 1000, r.impressions)
              /\ IF r.clicks = 0 THEN r.cpc = Whole(0)
                 ELSE IsQuotient(r.cpc, r.spend, r.clicks)
              /\ IF r.conversions = 0 THEN r.cpa = Whole(0)
                 ELSE IsQuotient(r.cpa, r.spend, r.conversions)
              /\ (r.impressions = 200 /\ r.clicks = 10 /\ r.spend = 50) =>
                    r.ctr = Whole(5) /\ r.cpc = Whole(5) /\ r.cpm = Whole(250)

\* Rows without impressions, without clicks and without conversions, and the
\* documented example, are among the rows about to be written.
C18_Witness ==
    /\ prog = "demo" /\ stage = "write"
    /\ \E i \in DOMAIN rows : rows[i].impressions = 0 /\ rows[i].clicks > 0
    /\ \E i \in DOMAIN rows : rows[i].clicks = 0 /\ rows[i].conversions = 0
    /\ \E i \in DOMAIN rows :
          rows[i].impressions = 200 /\ rows[i].clicks = 10 /\ rows[i].spend = 50

\* The action types that contain the text "purchase".
PurchaseTypes ==
    {"purchase", "omni_purchase", "offsite_conversion.fb_pixel_purchase"}

\* The rows of fetch_meta_ads.py assembled for the insight row ins.
FmaRowsFor(ins) ==
    {i \in DOMAIN rows :
        /\ rows[i].ad_id = GetOpt(ins, "ad_id")
        /\ rows[i].date = GetOpt(ins, "date_start")}

\* C19 (conversion counting), as claimed: in every row fetch_meta_ads.py
\* assembles, leads is the sum of the values of the "lead" actions, purchases
\* the sum of the values of the actions whose type contains "purchase", and
\* conversions their sum.
C19_ConversionCounting ==
    (prog = "fma" /\ stage \in {"assemble", "write", "pace"}) =>
        \A n \in DOMAIN insights :
           \A i \in FmaRowsFor(insights[n]) :
              LET acts == Get(insights[n], "actions", <<>>) IN
              /\ rows[i].leads = SumIn(acts, {"lead"})
              /\ rows[i].purchases = SumIn(acts, PurchaseTypes)
              /\ rows[i].conversions = rows[i].leads + rows[i].purchases

\* What process_account hands back to main: it has no return value (the bare
\* `return` of lines 158 and 206, and the end of the function).
process_account_returns == None

\* The rows of the current account the table holds as written, and those in
\* the dead-letter log.
PersistedRows ==
    {i \in DOMAIN rows :
        /\ UNIQUE_KEYS(rows[i]) \in DOMAIN store
        /\ store[UNIQUE_KEYS(rows[i])] = rows[i]}

DeadLetteredRows == {i \in DOMAIN rows : DeadLettered(rows[i])}

\* C20 (write report), as claimed: when the writer has gone through the rows
\* of an account it returns a report whose succeeded count is the number of
\* rows persisted, whose failed count is the number of rows dead-lettered, and
\* the two add up to the number of rows.
C20_WriteReport ==
    (prog = "demo" /\ stage = "pace" /\ status[cur] = "DONE" /\ rows # <<>>) =>
        /\ process_account_returns # None
        /\ process_account_returns[1].succeeded = Cardinality(PersistedRows)
        /\ process_account_returns[1].failed = Cardinality(DeadLetteredRows)
        /\ process_account_returns[1].succeeded + process_account_returns[1].failed
              = Len(rows)

---------------------------------------------------------------------------
\* C21 (collector failure): an account for which one of the three collectors
\* raised, on whichever page, has had no upsert issued in this execution; the
\* items fetched before the failure are gone with the frame that held them;
\* and the failure does not abort main.
C21_CollectorFailure ==
    /\ lastBatch.acct \notin fetchRaised
    /\ \A a \in fetchRaised : StoredRowsOf(a) = {} /\ status[a] = "SKIPPED"
    /\ cur \in fetchRaised =>
          /\ insights = <<>> /\ ads = <<>> /\ camps = <<>> /\ rows = <<>>
          /\ pgAcc = <<>> /\ pgPc = "idle"
          /\ stage = "pace"
    /\ (fetchRaised # {} /\ stage = "aborted") => cur \notin fetchRaised

\* The campaigns collector of account 1 has raised, after the three insights
\* pages and the ads page had been fetched, and main is at its pacing sleep.
C21_Witness ==
    /\ cur = 1 /\ 1 \in fetchRaised
    /\ pgColl = "campaigns"
    /\ stage = "pace"
    /\ lastBatch = NoBatch

---------------------------------------------------------------------------
\* C22 (dead-letter exactness), as claimed: once the row-by-row fallback of a
\* failed batch of fetch_meta_ads.py is over, the rows of that batch in the
\* dead-letter log are exactly those whose own upsert failed, and every row
\* whose own upsert succeeded is persisted.
C22_DeadLetterExact ==
    (LatestBatchFailed /\ lastBatch.err.code = "PGRST100") =>
        \A i \in DOMAIN SliceOf(rows, lastBatch.i) :
           LET r == SliceOf(rows, lastBatch.i)[i] IN
           /\ DeadLettered(r) <=> FmaRejected(r)
           /\ FmaAccepted(r) => (FmaKey(r) \in DOMAIN store /\ store[FmaKey(r)] = r)

---------------------------------------------------------------------------
\* The batch loop of the current account has issued its last batch and
\* process_account has returned normally.
WriterReturned ==
    stage = "pace" /\ status[cur] = "DONE" /\ rows # <<>> /\ lastBatch.acct = cur

\* C23 (batching): the batches issued for an account are consecutive slices
\* of its row list, in order, each of at most 100 rows and each but the last
\* of exactly 100; when the writer has returned there are ceil(n / 100) of
\* them and together they hold each of the n rows once.
C23_Partition ==
    (lastBatch.acct = cur /\ stage \in {"write", "pace", "aborted"}) =>
        /\ \A b \in DOMAIN issued :
              /\ Len(issued[b]) >= 1 /\ Len(issued[b]) <= 100
              /\ b < Len(issued) => Len(issued[b]) = 100
              /\ \A j \in DOMAIN issued[b] :
                    /\ (b - 1) * 100 + j \in DOMAIN rows
                    /\ issued[b][j] = rows[(b - 1) * 100 + j]
        /\ WriterReturned =>
              /\ Len(issued) = (Len(rows) + 99) \div 100
              /\ (Len(issued) - 1) * 100 + Len(issued[Len(issued)]) = Len(rows)

\* The 112 rows of account 1 have gone out as a batch of 100 and one of 12.
C23_Witness ==
    /\ WriterReturned /\ cur = 1
    /\ Len(rows) = 112
    /\ Len(issued) = 2 /\ Len(issued[1]) = 100 /\ Len(issued[2]) = 12

---------------------------------------------------------------------------
\* The moves of an account along PENDING, FETCHING, ASSEMBLING, WRITING,
\* DONE; an account that assembled no row is done with no batch to write.
StageMoves ==
    { <<"PENDING", "FETCHING">>, <<"FETCHING", "ASSEMBLING">>,
      <<"ASSEMBLING", "WRITING">>, <<"WRITING", "DONE">>,
      <<"ASSEMBLING", "DONE">>,
      <<"FETCHING", "SKIPPED">>, <<"ASSEMBLING", "SKIPPED">>,
      <<"WRITING", "SKIPPED">> }

\* This step sends a request to the upstream platform.
UpstreamRequest ==
    \/ pgFetched' = pgFetched + 1
    \/ creativeReqs' # creativeReqs /\ creativeReqs' # <<>>

\* This step hands a batch to upsert.
UpsertIssued == lastBatch' # lastBatch /\ lastBatch' # NoBatch

---------------------------------------------------------------------------
\* C25 (pacing): main has taken one pacing sleep for each account it has
\* left behind, DONE or SKIPPED, so the requests for account i+1 come after
\* the sleep that followed account i; the sleep is main's own step, taken
\* when process_account is over and no fetch_url call is in progress.
C25_Pacing ==
    [][/\ paces' = cur' - 1
       /\ cur' # cur => (cur' = cur + 1 /\ paces' = paces + 1)
       /\ paces' = paces + 1 =>
             /\ status[cur] \in {"DONE", "SKIPPED"}
             /\ pgPc = "idle" /\ pgGets' = pgGets
       /\ UpstreamRequest => (paces' = paces /\ paces = cur - 1)]_vars

\* The first insights page of account 3 has been requested after two pacing
\* sleeps: one after account 1 was skipped and one after account 2 was done.
C25_Witness ==
    /\ cur = 3 /\ stage = "fetch" /\ pgColl = "insights" /\ pgFetched = 1
    /\ status[1] = "SKIPPED" /\ status[2] = "DONE"
    /\ paces = 2

---------------------------------------------------------------------------
\* Row r carries the identifiers of account a and takes its ad and campaign
\* fields from nothing but the ads and campaigns the upstream lists for a.
RowOfAccount(r, a) ==
    /\ r.account_id = Act(a) /\ r.business_name = Business(a)
    /\ r.ad_name # None =>
          \E k \in 1 .. UpCount(a, "ads") :
             LET ad == UpItem(a, "ads", k) IN
             /\ ad.id = r.ad_id /\ r.ad_name = Some(ad.name)
             /\ r.campaign_id = Some(ad.campaign_id)
    /\ r.ad_name = None => r.campaign_id = None
    /\ r.campaign_name # None =>
          \E k \in 1 .. UpCount(a, "campaigns") :
             LET c == UpItem(a, "campaigns", k) IN
             /\ r.campaign_id = Some(c.id) /\ r.campaign_name = Some(c.name)
             /\ r.daily_budget = Ratio(Get(c, "daily_budget", 0), BUDGET_SCALE)
    /\ r.campaign_name = None => r.daily_budget = None

\* Item x is one of the items the upstream lists for account a under coll.
ItemOfAccount(x, a, coll) ==
    \E k \in 1 .. UpCount(a, coll) : x = UpItem(a, coll, k)

\* C26 (no cross-account leakage): the rows assembled, issued and stored for
\* an account carry its own identifiers and take their ad and campaign
\* fields from its own ads and campaigns; the lists and maps held while an
\* account is processed hold only its own items; and when main turns to the
\* next account nothing of the last one is held.
C26_NoLeakage ==
    /\ \A i \in DOMAIN rows : RowOfAccount(rows[i], cur)
    /\ lastBatch.acct = cur =>
          \A b \in DOMAIN issued : \A j \in DOMAIN issued[b] :
             RowOfAccount(issued[b][j], cur)
    /\ \A a \in Accounts : \A k \in StoredRowsOf(a) : RowOfAccount(store[k], a)
    /\ \A k \in DOMAIN store : \E a \in Accounts : k \in StoredRowsOf(a)
    /\ \A id \in DOMAIN ads : ItemOfAccount(ads[id], cur, "ads")
    /\ \A id \in DOMAIN camps :
          \E k \in 1 .. UpCount(cur, "campaigns") :
             LET c == UpItem(cur, "campaigns", k) IN
             c.id = id /\ camps[id].campaign_name = c.name
    /\ \A i \in DOMAIN insights : ItemOfAccount(insights[i], cur, "insights")
    /\ \A i \in DOMAIN pgAcc : ItemOfAccount(pgAcc[i], cur, pgColl)
    /\ stage = "next" =>
          /\ insights = <<>> /\ ads = <<>> /\ camps = <<>> /\ rows = <<>>
          /\ pgAcc = <<>>

\* The rows of account 3 are assembled from its own maps while the table
\* already holds rows of account 1.
C26_Witness ==
    /\ cur = 3 /\ stage = "write"
    /\ rows # <<>> /\ ads # <<>> /\ camps # <<>>
    /\ \E i \in DOMAIN rows : rows[i].campaign_name # None
    /\ StoredRowsOf(1) # {}

---------------------------------------------------------------------------
\* This step of demo.py's fetch_url issues the GET that follows retry delay
\* number k (k = 0 for the first attempt of the call).
DemoGetAfter(k) ==
    /\ fVariant = "demo" /\ fState.pc = "running"
    /\ fState'.gets = fState.gets + 1 /\ fState.gets = k

\* The delay slept before retry k lies between 2^(k-1) and 2^(k-1) + 1 s,
\* and the first attempt follows no delay.
DelayInBand ==
    \A k \in 0 .. tries - 1 :
       DemoGetAfter(k) =>
          IF k = 0 THEN fState'.slept = 0
          ELSE /\ fState'.slept >= Pow2(k - 1) * TicksPerSecond
               /\ fState'.slept <= (Pow2(k - 1) + 1) * TicksPerSecond

\* C27 (backoff schedule), as claimed: the first attempt is made without
\* delay, the delay before retry k lies between 2^(k-1) and 2^(k-1) + 1 s,
\* and each retry delay of a request is greater than the one before and at
\* least twice as long.
C27_DelaysDouble ==
    [][/\ DelayInBand
       /\ \A k \in 2 .. tries - 1 :
             DemoGetAfter(k) =>
                /\ fState'.slept > fState.slept
                /\ fState'.slept >= 2 * fState.slept]_vars

\* C27, amended: the first attempt is made without delay, the delay before
\* retry k lies between 2^(k-1) and 2^(k-1) + 1 s, and each retry delay of a
\* request is greater than the one before and at least twice the lower end
\* 2^(k-2) of the band the one before was drawn from.
C27_BackoffSchedule ==
    [][/\ DelayInBand
       /\ \A k \in 2 .. tries - 1 :
             DemoGetAfter(k) =>
                /\ fState'.slept > fState.slept
                /\ fState'.slept >= 2 * Pow2(k - 2) * TicksPerSecond]_vars

\* A call of demo.py's fetch_url has issued its fifth GET after a fourth
\* retry delay that is longer than 8 s and shorter than twice 8 s.
C27_Witness ==
    /\ fVariant = "demo" /\ fState.gets = tries
    /\ fState.slept > 8 * TicksPerSecond
    /\ fState.slept < 16 * TicksPerSecond

---------------------------------------------------------------------------
RECURSIVE TotalGets(_)
TotalGets(gets) == IF gets = <<>> THEN 0 ELSE Head(gets) + TotalGets(Tail(gets))

\* The items of the first n pages of a collection, in order.
FirstPages(a, coll, n) ==
    SubSeq(AllItems(a, coll), 1, Min(n * Limit(coll), UpCount(a, coll)))

\* C28 (no state between fetches): in demo.py every page request of a
\* paginated fetch has the whole retry budget, whatever the requests before
\* it used, so a fetch of N pages makes at most 5 * N attempts and a request
\* that gives up on failing responses has made all 5; and the accumulator
\* holds the pages of this fetch only, from the first one on.
C28_FreshPerFetch ==
    (pgVariant = "demo" /\ pgPc # "idle") =>
        /\ Len(pgGets) = pgFetched
        /\ \A i \in DOMAIN pgGets : pgGets[i] >= 1 /\ pgGets[i] <= tries
        /\ TotalGets(pgGets) <= tries * pgFetched
        /\ pgPc = "raised" => pgGets[Len(pgGets)] \in {1, tries}
        /\ \A i \in DOMAIN pgGets :
              (i < Len(pgGets) \/ pgPc # "raised") => pgGets[i] \in {1, 3}
        /\ (pgPc \in {"running", "returned"} /\ ~pgCyclic) =>
              pgAcc = FirstPages(pgAcct, pgColl, pgFetched)

\* The insights of account 1: the first page took three attempts, the second
\* three, and the third was given up after five, eleven attempts in all.
C28_Witness ==
    /\ pgVariant = "demo" /\ pgColl = "insights" /\ pgAcct = 1
    /\ pgGets = <<3, 3, 5>>
    /\ pgPc = "raised"

---------------------------------------------------------------------------
\* The campaign map of the current account is held.
CampaignsHeld == stage \in {"assemble", "write"} \/ (stage = "pace" /\ RowsAssembled)

\* C29 (budget normalisation): every campaign fetched for the account has a
\* map entry whose daily_budget is the platform's value divided by 1,000,000
\* (5 for 5,000,000) and 0 when the campaign has no daily_budget field; an
\* assembled row has the daily_budget of its campaign's entry, and a null one
\* when its campaign is not in the map.
C29_BudgetNormalised ==
    CampaignsHeld =>
        /\ \A k \in 1 .. UpCount(cur, "campaigns") :
              LET c == UpItem(cur, "campaigns", k) IN
              /\ c.id \in DOMAIN camps
              /\ "daily_budget" \notin DOMAIN c => camps[c.id].daily_budget = Whole(0)
              /\ ("daily_budget" \in DOMAIN c /\ c.daily_budget = 5000000)
                    => camps[c.id].daily_budget = Whole(5)
              /\ IsQuotient(camps[c.id].daily_budget, Get(c, "daily_budget", 0),
                            1000000)
        /\ \A i \in DOMAIN rows :
              IF rows[i].campaign_id # None /\ rows[i].campaign_id[1] \in DOMAIN camps
              THEN rows[i].daily_budget = camps[rows[i].campaign_id[1]].daily_budget
              ELSE rows[i].daily_budget = None

\* Account 3 lists one campaign, of 5,000,000 a day: its rows carry 5 or, for
\* the ad of the unlisted campaign, null; the table holds a row of account 1
\* whose campaign has no daily budget, with 0.
C29_Witness ==
    /\ cur = 3 /\ stage = "write"
    /\ camps[CampaignId(3, 1)].daily_budget = Whole(5)
    /\ \E i \in DOMAIN rows : rows[i].daily_budget = Whole(5)
    /\ \E i \in DOMAIN rows :
          /\ rows[i].campaign_id = Some(CampaignId(3, 2))
          /\ rows[i].daily_budget = None
    /\ \E k \in StoredRowsOf(1) : store[k].daily_budget = Whole(0)

---------------------------------------------------------------------------
(* SpecPost: chat-notifier.py post_with_retry against an arbitrary webhook. *)
(* fState is the local state of the call, fLast the webhook's latest       *)
(* answer; "client_error" is a requests.exceptions.RequestException raised *)
(* by requests.post.                                                       *)

\* chat-notifier.py: MAX_RETRIES = 5  # Tries on HTTP 429
NOTIFIER_MAX_RETRIES == 5

\* chat-notifier.py: BASE_WAIT = 2  # Initial back-off seconds
BASE_WAIT == 2

\* wait, tries = BASE_WAIT, 0; posts counts the POSTs issued and slept the
\* ticks slept before the latest one.
PostStart ==
    [pc |-> "running", tries |-> 0, wait |-> BASE_WAIT * TicksPerSecond,
     posts |-> 0, slept |-> 0, sleep_time |-> 0]

\* post_with_retry, lines 72-88: one iteration of `while True`.
post_with_retry(st, r) ==
    LET got == [st EXCEPT !.posts = st.posts + 1, !.slept = st.sleep_time] IN
    IF r.kind # "status" THEN [got EXCEPT !.pc = "raised"]
    ELSE IF r.status = 429
    THEN LET n == st.tries + 1 IN
         IF n > NOTIFIER_MAX_RETRIES
         THEN [got EXCEPT !.tries = n, !.pc = "raised"]
         ELSE [got EXCEPT !.tries = n,
                          !.sleep_time = IF r.retry_after # 0
                                         THEN r.retry_after * TicksPerSecond
                                         ELSE st.wait,
                          !.wait = 2 * st.wait]
    ELSE IF r.status >= 400 THEN [got EXCEPT !.pc = "raised"]
    ELSE [got EXCEPT !.pc = "returned"]

InitPost ==
    /\ fVariant = "post"
    /\ fState = [PostStart EXCEPT !.pc = "returned"]
    /\ fLast = NoResp
    /\ fCalls = 0
    /\ fAll429 = TRUE
    /\ PageIdle /\ RunIdle

\* send_to_google_chat, line 108: post_with_retry({"text": msg}).
PostCall ==
    /\ fState.pc # "running"
    /\ fCalls < MaxFetchCalls
    /\ fState' = PostStart
    /\ fLast' = NoResp
    /\ fCalls' = fCalls + 1
    /\ fAll429' = TRUE
    /\ UNCHANGED <<fVariant, pageVars, runVars, fmaVars, chatVars, auxVars>>

\* requests.post(WEBHOOK_URL, ...) and what the loop does with its outcome.
PostStep ==
    /\ fState.pc = "running"
    /\ \E r \in Responses :
          /\ fState' = post_with_retry(fState, r)
          /\ fLast' = r
          /\ fAll429' = (fAll429 /\ r.kind = "status" /\ r.status = 429)
    /\ UNCHANGED <<fVariant, fCalls, pageVars, runVars, fmaVars, chatVars, auxVars>>

NextPost == PostCall \/ PostStep

SpecPost == InitPost /\ [][NextPost]_vars

\* C30 (notifier retry cap), as claimed: a call of post_with_retry issues at
\* most MAX_RETRIES (5) POSTs and, answered 429 every time, ends by raising;
\* it returns on the first answer that is neither a 429 nor an error, and
\* raises at once on any other HTTP error and on a transport error.
C30_PostRetryCap ==
    /\ fState.posts <= NOTIFIER_MAX_RETRIES
    /\ (fAll429 /\ fState.posts >= NOTIFIER_MAX_RETRIES) => fState.pc = "raised"
    /\ fState.posts > 0 =>
          /\ fState.pc = "returned" <=> (fLast.kind = "status" /\ fLast.status < 400)
          /\ (fLast.kind # "status" \/ (fLast.status >= 400 /\ fLast.status # 429))
                => fState.pc = "raised"
          /\ (fState.pc = "raised" /\ fLast.kind = "status" /\ fLast.status = 429)
                => fAll429

---------------------------------------------------------------------------
(* SpecChunk: chat-notifier.py chunk_lines applied to lists of lines.  A    *)
(* string is the sequence of its characters; len is Len.                   *)

MaxLineLen == 3

MaxLines == 3

MaxLimit == 4

\* The characters of the lines: a letter and a blank.
Chars == {"a", " "}

Newline == "\n"

\* The characters str.rstrip() removes.
Whitespace == {" ", Newline}

\* The lines format_row can produce are not empty.
Lines == UNION {[1 .. k -> Chars] : k \in 1 .. MaxLineLen}

LineLists == UNION {[1 .. k -> Lines] : k \in 0 .. MaxLines}

\* str.rstrip()
RECURSIVE rstrip(_)
rstrip(s) ==
    IF s # <<>> /\ s[Len(s)] \in Whitespace
    THEN rstrip(SubSeq(s, 1, Len(s) - 1))
    ELSE s

\* chunk_lines, lines 60-64: `for line in lines`, from st = <<chunks, current>>.
RECURSIVE chunk_lines_loop(_, _, _)
chunk_lines_loop(st, lines, limit) ==
    IF lines = <<>> THEN st
    ELSE LET line == Head(lines)
             cut  == Len(st.current) + Len(line) + 1 > limit
             nx   == [chunks  |-> IF cut THEN Append(st.chunks, rstrip(st.current))
                                  ELSE st.chunks,
                      current |-> (IF cut THEN <<>> ELSE st.current)
                                     \o line \o <<Newline>>]
         IN chunk_lines_loop(nx, Tail(lines), limit)

\* chunk_lines(lines, limit)
chunk_lines(lines, limit) ==
    LET st == chunk_lines_loop([chunks |-> <<>>, current |-> <<>>], lines, limit)
    IN IF st.current # <<>> THEN Append(st.chunks, rstrip(st.current))
       ELSE st.chunks

InitChat == FetchIdle /\ PageIdle /\ RunIdle

\* send_to_google_chat, line 102: messages = chunk_lines([...]).
ChunkCall ==
    /\ clPc = "idle"
    /\ \E lines \in LineLists, limit \in 1 .. MaxLimit :
          /\ clLines' = lines
          /\ clLimit' = limit
          /\ clChunks' = chunk_lines(lines, limit)
    /\ clPc' = "returned"
    /\ UNCHANGED <<fetchVars, pageVars, runVars, fmaVars, auxVars, faTable,
                   faStart, faRows, faRanges, faPc>>

SpecChunk == InitChat /\ [][ChunkCall]_vars

\* C31 (chat limit), as claimed: every chunk chunk_lines returns has at most
\* `limit` characters, whatever the lines and the limit.
C31_ChunkWithinLimit ==
    clPc = "returned" =>
        \A i \in DOMAIN clChunks : Len(clChunks[i]) <= clLimit

\* str.split("\n"): the pieces of s between its newlines.
RECURSIVE split_lines(_)
split_lines(s) ==
    IF \A i \in DOMAIN s : s[i] # Newline THEN <<s>>
    ELSE LET i == CHOOSE j \in DOMAIN s :
                     s[j] = Newline /\ \A l \in 1 .. j - 1 : s[l] # Newline
         IN <<SubSeq(s, 1, i - 1)>> \o split_lines(SubSeq(s, i + 1, Len(s)))

\* The lines of all the chunks, in order.
RECURSIVE LinesOf(_)
LinesOf(chunks) ==
    IF chunks = <<>> THEN <<>>
    ELSE split_lines(Head(chunks)) \o LinesOf(Tail(chunks))

\* C32 (nothing lost, nothing empty), as claimed: for non-empty lines, the
\* chunks split on newlines give back the input lines in order, and no chunk
\* is the empty string.
C32_ChunksRoundTrip ==
    clPc = "returned" =>
        /\ LinesOf(clChunks) = clLines
        /\ \A i \in DOMAIN clChunks : clChunks[i] # <<>>

---------------------------------------------------------------------------
\* C33 (identity key not null), as claimed: every row of every batch handed
\* to an upsert has an ad_id and a date.
C33_KeyNotNull ==
    \A b \in DOMAIN issued : \A j \in DOMAIN issued[b] :
       issued[b][j].ad_id # None /\ issued[b][j].date # None

---------------------------------------------------------------------------
\* C34 (batch failures isolated), as claimed: after a batch of an account
\* failed with a non-structural error while further rows remain, the batch
\* loop is at the next batch.
C34_BatchesIsolated ==
    (/\ lastBatch.acct = cur
     /\ lastBatch.err # StoreOk /\ lastBatch.err.code # "42P10"
     /\ lastBatch.i + BATCH_SIZE < Len(rows))
        => (stage = "write" /\ batchI = lastBatch.i + BATCH_SIZE)

---------------------------------------------------------------------------
\* The states of an account that is being processed.
InProgress == {"FETCHING", "ASSEMBLING", "WRITING"}

\* C35 (one account at a time): at most one account is FETCHING, ASSEMBLING
\* or WRITING, and it is the current one; the accounts before it in the list
\* are DONE or SKIPPED and those after it are PENDING; so every request and
\* every upsert, which are made for the current account, come after all the
\* earlier accounts have ended.
C35_OneAtATime ==
    [][/\ \A a \in Accounts :
             /\ status'[a] \in InProgress => a = cur'
             /\ a < cur' => status'[a] \in {"DONE", "SKIPPED"}
             /\ a > cur' => status'[a] = "PENDING"
       /\ pgPc' = "running" => pgAcct' = cur'
       /\ (UpstreamRequest \/ UpsertIssued) =>
             /\ cur' = cur
             /\ \A a \in 1 .. cur - 1 : status[a] \in {"DONE", "SKIPPED"}
             /\ \A a \in Accounts : a # cur => status'[a] = status[a]
       /\ UpsertIssued => lastBatch'.acct = cur
       /\ cur' # cur => cur' = cur + 1]_vars

\* The collector of account 2 is running: account 1 is DONE with its rows
\* stored and account 3 has not begun.
C35_Witness ==
    /\ cur = 2 /\ stage = "fetch" /\ pgPc = "running" /\ pgAcct = 2
    /\ status[1] = "DONE" /\ status[2] = "FETCHING" /\ status[3] = "PENDING"
    /\ lastBatch.acct = 1 /\ StoredRowsOf(1) # {}

---------------------------------------------------------------------------
\* This step calls a collector.
CollectorCalled == pgPc' = "running" /\ pgFetched' = 0

\* This step requests one page of a collection from the upstream.
PageRequested == pgFetched' = pgFetched + 1

\* C36 (fetch order): the collectors of an account are called one after the
\* other, insights first, ads once insights has returned, campaigns once ads
\* has returned, and assembly begins once campaigns has returned; a collector
\* that raised is followed by the account's skip, so no request for the
\* remaining collections is made.
C36_FetchOrder ==
    [][/\ CollectorCalled =>
             \/ stage = "next" /\ pgPc = "idle" /\ pgColl' = "insights"
             \/ /\ pgPc = "returned" /\ cur' = cur /\ pgAcct' = pgAcct
                /\ <<pgColl, pgColl'>> \in {<<"insights", "ads">>,
                                            <<"ads", "campaigns">>}
       /\ (stage = "fetch" /\ stage' = "assemble") =>
             pgColl = "campaigns" /\ pgPc = "returned"
       /\ pgPc = "raised" =>
             /\ pgPc' = "idle" /\ stage' = "pace"
             /\ fetchRaised' = fetchRaised \cup {cur}
       /\ PageRequested =>
             /\ pgPc = "running" /\ pgAcct = cur /\ pgColl' = pgColl
             /\ cur \notin fetchRaised]_vars

\* The insights collector of account 1 raised: the account is skipped with
\* insights still the latest collector called and nothing held for ads or
\* campaigns.
C36_Witness ==
    /\ cur = 1 /\ stage = "pace" /\ 1 \in fetchRaised
    /\ pgColl = "insights" /\ pgPc = "idle"
    /\ ads = <<>> /\ camps = <<>>

---------------------------------------------------------------------------
\* C37 (no empty write): an account for which no row is assembled ends at
\* once as done, with no upsert issued and nothing written to the dead-letter
\* file or the store, and the run goes on to the next account; every upsert
\* issued carries at least one row.
C37_NoEmptyWrite ==
    [][/\ (stage = "assemble" /\ rows' = <<>>) =>
             /\ stage' = "pace" /\ status'[cur] = "DONE"
             /\ lastBatch' = lastBatch /\ issued' = issued
             /\ deadLetter' = deadLetter /\ store' = store
       /\ (stage = "pace" /\ status[cur] = "DONE") =>
             stage' = "next" /\ cur' = cur + 1 /\ abortCause' = abortCause
       /\ UpsertIssued =>
             /\ rows # <<>> /\ lastBatch'.acct = cur
             /\ issued'[Len(issued')] # <<>>
       /\ deadLetter' # deadLetter => rows # <<>>]_vars

\* Account 2 has no insights: it is done without a batch or a stored row of
\* its own, and the insights of account 3 are being fetched.
C37_Witness ==
    /\ cur = 3 /\ stage = "fetch" /\ pgPc = "running" /\ pgAcct = 3
    /\ UpCount(2, "insights") = 0
    /\ status[2] = "DONE" /\ 2 \notin fetchRaised
    /\ lastBatch.acct = 1 /\ StoredRowsOf(2) = {}

---------------------------------------------------------------------------
\* The row loop of process_and_save is at a row whose creatives request is
\* made and raises.
CreativesRequestFails ==
    /\ prog = "fma" /\ stage = "assemble" /\ rowI < Len(insights)
    /\ LET ad_id == GetOpt(insights[rowI + 1], "ad_id")
       IN /\ ~(ad_id # None /\ <<"ad", ReqKey(ad_id)>> \in DOMAIN creative_cache)
          /\ CreativesRaise(ad_id)

\* C38 (creative cache), as claimed: within one account run the creatives of
\* an ad are requested at most once, whether the request succeeds or fails,
\* and a failed creatives request skips the insight row it was made for and
\* nothing else.
C38_CreativesOnce ==
    [][/\ \A k \in DOMAIN creativeReqs' : creativeReqs'[k] <= 1
       /\ CreativesRequestFails =>
             /\ rows' = rows /\ rowI' = rowI + 1
             /\ stage' = stage /\ status' = status]_vars

---------------------------------------------------------------------------
\* chat-notifier.py, fetch_all_rows.

\* BATCH_SIZE of chat-notifier.py, the page size of its table reads.
NOTIFIER_BATCH_SIZE == 1000

\* The largest table read: two full pages and one row.
MaxTableRows == 2001

\* The table does not change during the read and answers every range from
\* the same ordering of its rows; row i of that ordering is i.
TableOf(n) == [i \in 1 .. n |-> i]

\* .range(start, end).execute().data or []: the rows at offsets start .. end,
\* both included, as far as the table has them.
range(table, start, end) ==
    SubSeq(table, start + 1, IF end + 1 < Len(table) THEN end + 1 ELSE Len(table))

\* send_to_google_chat, line 97: rows = fetch_all_rows(), with
\* `rows, start = [], 0`.
FetchAllCall ==
    /\ faPc = "idle"
    /\ \E n \in 0 .. MaxTableRows : faTable' = TableOf(n)
    /\ faStart' = 0
    /\ faRows' = <<>>
    /\ faRanges' = <<>>
    /\ faPc' = "running"
    /\ UNCHANGED <<fetchVars, pageVars, runVars, fmaVars, auxVars, clLines,
                   clLimit, clChunks, clPc>>

\* The page loop reading one row too many per page: end = start + BATCH_SIZE.
FetchAllStepOverlapping ==
    /\ faPc = "running"
    /\ LET end  == faStart + NOTIFIER_BATCH_SIZE
           page == range(faTable, faStart, end)
       IN /\ faRanges' = Append(faRanges, <<faStart, end>>)
          /\ faRows' = faRows \o page
          /\ IF Len(page) < NOTIFIER_BATCH_SIZE
             THEN faPc' = "returned" /\ faStart' = faStart
             ELSE faPc' = "running" /\ faStart' = faStart + NOTIFIER_BATCH_SIZE
    /\ UNCHANGED <<fetchVars, pageVars, runVars, fmaVars, auxVars, clLines,
                   clLimit, clChunks, clPc, faTable>>

\* fetch_all_rows, lines 34-46: one iteration of `while True`.
FetchAllStep ==
    /\ faPc = "running"
    /\ LET end  == faStart + NOTIFIER_BATCH_SIZE - 1
           page == range(faTable, faStart, end)
       IN /\ faRanges' = Append(faRanges, <<faStart, end>>)
          /\ faRows' = faRows \o page
          /\ IF Len(page) < NOTIFIER_BATCH_SIZE
             THEN faPc' = "returned" /\ faStart' = faStart
             ELSE faPc' = "running" /\ faStart' = faStart + NOTIFIER_BATCH_SIZE
    /\ UNCHANGED <<fetchVars, pageVars, runVars, fmaVars, auxVars, clLines,
                   clLimit, clChunks, clPc, faTable>>

NextFetchAll == FetchAllCall \/ FetchAllStep

SpecFetchAll == InitChat /\ [][NextFetchAll]_vars

\* C39 (table read): fetch_all_rows requests the consecutive ranges
\* [0, 999], [1000, 1999], ... and no other; while it runs it holds exactly
\* the rows before its next range, that range starts inside the table or at
\* its end, and another request can always be made; once returned it holds
\* every row of the table once, in the table's order, after one request more
\* than the table has full pages, the last being the first short page.
C39_FetchAllRows ==
    /\ \A i \in DOMAIN faRanges :
          faRanges[i] = <<(i - 1) * NOTIFIER_BATCH_SIZE,
                          i * NOTIFIER_BATCH_SIZE - 1>>
    /\ faPc = "running" =>
          /\ ENABLED FetchAllStep
          /\ faStart = Len(faRanges) * NOTIFIER_BATCH_SIZE
          /\ faStart <= Len(faTable)
          /\ faRows = SubSeq(faTable, 1, faStart)
    /\ faPc = "returned" =>
          /\ faRows = faTable
          /\ Len(faRanges) = Len(faTable) \div NOTIFIER_BATCH_SIZE + 1

\* A table of exactly two full pages has been read: the third request
\* returned the empty page that ends the loop.
C39_Witness ==
    /\ faPc = "returned" /\ Len(faTable) = 2 * NOTIFIER_BATCH_SIZE
    /\ Len(faRanges) = 3 /\ faRows = faTable

=============================================================================
